---------------------------- MODULE Spec2Model ----------------------------
(***************************************************************************)
(* A model of the WD MyCloud recovery scripts: restsdk_public.py (the      *)
(* threaded copy engine, its resume mode, the ledger tables copied_files   *)
(* and skipped_files, the regeneration of the ledger from the destination) *)
(* and create_symlink_farm.py (path reconstruction for the symlink farm).  *)
(*                                                                         *)
(* Strings are sequences of one-character strings, so that str.replace,    *)
(* str.lstrip, "in" and "/".join are computed character by character.      *)
(* File-system paths below the destination root are kept relative to it.   *)
(***************************************************************************)
EXTENDS Integers, Sequences, FiniteSets, TLC

(***************************************************************************)
(* Python values                                                           *)
(***************************************************************************)
\* Python's None for a string-valued column (never a sequence of characters).
None == <<"NONE">>

\* SQL NULL in a numeric timestamp column.
NoTs == -1

Slash == <<"/">>
Backslash == <<"\\">>
Pipe == <<"|">>
Hyphen == <<"-">>
AuthWord == <<"a", "u", "t", "h">>

\* s[i..] , Python s[i-1:]
Drop(s, n) == SubSeq(s, n + 1, Len(s))

\* Python: sub in s
RECURSIVE Contains(_, _)
Contains(s, sub) ==
    IF Len(s) < Len(sub) THEN FALSE
    ELSE IF SubSeq(s, 1, Len(sub)) = sub THEN TRUE
    ELSE Contains(Tail(s), sub)

\* Python: s.replace(old, new) for a non-empty old: every non-overlapping
\* occurrence, scanning from the left.
RECURSIVE Replace(_, _, _)
Replace(s, old, new) ==
    IF old = <<>> \/ Len(s) < Len(old) THEN s
    ELSE IF SubSeq(s, 1, Len(old)) = old
         THEN new \o Replace(Drop(s, Len(old)), old, new)
         ELSE <<Head(s)>> \o Replace(Tail(s), old, new)

\* Python: s.lstrip(c) for a one-character c
RECURSIVE LStrip(_, _)
LStrip(s, c) ==
    IF s # <<>> /\ <<Head(s)>> = c THEN LStrip(Tail(s), c) ELSE s

\* Python: "/".join(parts)
RECURSIVE JoinSlash(_)
JoinSlash(parts) ==
    IF parts = <<>> THEN <<>>
    ELSE IF Len(parts) = 1 THEN parts[1]
    ELSE parts[1] \o Slash \o JoinSlash(Tail(parts))

\* Python: reversed(parts)
RECURSIVE Reversed(_)
Reversed(parts) ==
    IF parts = <<>> THEN <<>> ELSE Reversed(Tail(parts)) \o <<Head(parts)>>

\* os.path.dirname of a relative path: everything before the last "/"
RECURSIVE DirName(_)
DirName(p) ==
    IF p = <<>> THEN <<>>
    ELSE IF <<p[Len(p)]>> = Slash THEN SubSeq(p, 1, Len(p) - 1)
    ELSE DirName(SubSeq(p, 1, Len(p) - 1))

\* The proper ancestors of a relative path ("a/b/c" -> {"a", "a/b"}).
RECURSIVE Ancestors(_)
Ancestors(p) ==
    LET d == DirName(p) IN IF d = <<>> THEN {} ELSE {d} \cup Ancestors(d)


Max(S) == CHOOSE x \in S : \A y \in S : y <= x

(***************************************************************************)
(* The Files table and the in-memory index fileDIC built from it           *)
(***************************************************************************)
DirMime == "application/x.wd.dir"
FileMime == "image/jpeg"

\* A directory row and a file row of the Files table.
DirRow(id, name, parent) ==
    [id |-> id, name |-> name, parentID |-> parent, contentID |-> None,
     mimeType |-> DirMime, imageDate |-> NoTs, videoDate |-> NoTs,
     cTime |-> NoTs, birthTime |-> NoTs]

FileRow(id, name, parent, cid) ==
    [id |-> id, name |-> name, parentID |-> parent, contentID |-> cid,
     mimeType |-> FileMime, imageDate |-> NoTs, videoDate |-> NoTs,
     cTime |-> 5000, birthTime |-> 7000]

\* fileDIC = {file[0]: {"Name": .., "Parent": .., "contentID": .., ...}}
\* (a later row with the same id replaces an earlier one)
FileDIC(rows) ==
    [k \in {rows[i].id : i \in 1..Len(rows)} |->
        LET r == rows[Max({i \in 1..Len(rows) : rows[i].id = k})]
        IN [Name |-> r.name, Parent |-> r.parentID, contentID |-> r.contentID,
            imageDate |-> r.imageDate, videoDate |-> r.videoDate,
            cTime |-> r.cTime, birthTime |-> r.birthTime]]

\* The insertion order of the dict: the order of first insertion of each key.
RECURSIVE DictOrder(_)
DictOrder(rows) ==
    IF rows = <<>> THEN <<>>
    ELSE LET init == DictOrder(SubSeq(rows, 1, Len(rows) - 1))
             k == rows[Len(rows)].id
         IN IF \E i \in 1..Len(init) : init[i] = k THEN init ELSE Append(init, k)

\* 'auth' in name and '|' in name
IsAuthName(name) == Contains(name, AuthWord) /\ Contains(name, Pipe)

\* getRootDirs(): the first Name, in dict order, that holds both 'auth' and
\* '|'; None when the loop ends without a return.
getRootDirs(rows) ==
    LET dic == FileDIC(rows)
        ord == DictOrder(rows)
        hits == {i \in 1..Len(ord) : IsAuthName(dic[ord[i]].Name)}
    IN IF hits = {} THEN None
       ELSE dic[ord[CHOOSE i \in hits : \A j \in hits : i <= j]].Name

\* find_root_dir_name(file_dic) of create_symlink_farm.py
find_root_dir_name(rows) == getRootDirs(rows)

\* build_reverse_lookups(): a later record replaces an earlier one under the
\* same contentID (or Name); falsy keys (None, '') are not entered.
Truthy(s) == s # None /\ s # <<>>

contentID_to_fileID(rows, key) ==
    LET dic == FileDIC(rows)
        ord == DictOrder(rows)
        hits == {i \in 1..Len(ord) :
                    Truthy(dic[ord[i]].contentID) /\ dic[ord[i]].contentID = key}
    IN IF hits = {} THEN None ELSE ord[Max(hits)]

name_to_fileID(rows, key) ==
    LET dic == FileDIC(rows)
        ord == DictOrder(rows)
        hits == {i \in 1..Len(ord) :
                    Truthy(dic[ord[i]].Name) /\ dic[ord[i]].Name = key}
    IN IF hits = {} THEN None ELSE ord[Max(hits)]

\* filenameToID(filename): contentID first, then Name.
filenameToID(rows, filename) ==
    IF contentID_to_fileID(rows, filename) # None
    THEN contentID_to_fileID(rows, filename)
    ELSE name_to_fileID(rows, filename)

(***************************************************************************)
(* Path reconstruction.  A result is [kind, path]:                         *)
(*   "ok"       the routine returned path (None for Python's None)         *)
(*   "KeyError" the routine raised KeyError                                *)
(*   "hang"     the routine's loop reached a loop state a second time:     *)
(*              the loop is deterministic in that state, so it never ends  *)
(***************************************************************************)
Ok(p) == [kind |-> "ok", path |-> p]
Raised(e) == [kind |-> e, path |-> None]
Hang == [kind |-> "hang", path |-> None]

\* findTree's while loop: current_parent is the loop state; seen holds the
\* values current_parent has had.
RECURSIVE findTreeLoop(_, _, _, _)
findTreeLoop(dic, current_parent, path, seen) ==
    IF dic[current_parent].Parent = None THEN Ok(path)         \* hasAnotherParent
    ELSE LET nxt == dic[current_parent].Parent                  \* findNextParent
         IN IF nxt \notin DOMAIN dic THEN Raised("KeyError")  \* fileDIC[current_parent]
            ELSE IF nxt \in seen THEN Hang
            ELSE findTreeLoop(dic, nxt, dic[nxt].Name \o Slash \o path,
                              seen \cup {nxt})

findTree(dic, fileID, name, parent) ==
    IF parent \notin DOMAIN dic THEN Raised("KeyError")       \* fileDIC[parent]
    ELSE findTreeLoop(dic, parent, dic[parent].Name \o Slash \o name, {parent})

idToPath2(dic, fileID) ==
    IF fileID \notin DOMAIN dic THEN Raised("KeyError")
    ELSE IF dic[fileID].Parent # None
         THEN findTree(dic, fileID, dic[fileID].Name, dic[fileID].Parent)
         ELSE Ok(dic[fileID].Name)

\* reconstruct_path of create_symlink_farm.py: the walk with a visited set.
RECURSIVE farmWalk(_, _, _, _)
farmWalk(dic, current_id, path_parts, visited) ==
    IF current_id = None \/ current_id \notin DOMAIN dic THEN path_parts
    ELSE IF current_id \in visited THEN path_parts
    ELSE farmWalk(dic, dic[current_id].Parent,
                  <<dic[current_id].Name>> \o path_parts,
                  visited \cup {current_id})

StripRoot(full_path, root) ==
    IF Truthy(root)
    THEN Replace(Replace(full_path, root \o Slash, <<>>), root, <<>>)
    ELSE full_path

reconstruct_path(dic, file_id, root_dir_to_strip) ==
    IF file_id \notin DOMAIN dic THEN None
    ELSE LET parts == farmWalk(dic, dic[file_id].Parent,
                               <<dic[file_id].Name>>, {file_id})
             full == LStrip(StripRoot(Replace(JoinSlash(parts), Backslash, Slash),
                                      root_dir_to_strip), Slash)
         IN IF full # <<>> THEN full ELSE None

\* sanitize_path(path, sanitize_pipes)
sanitize_path(path, sanitize_pipes) ==
    IF sanitize_pipes THEN Replace(path, Pipe, Hyphen) ELSE path

\* The nested reconstruct_path of regenerate_copied_files_from_dest: a walk
\* with no visited set.
RECURSIVE regenWalk(_, _, _, _)
regenWalk(dic, current_id, parts, seen) ==
    IF current_id = None \/ current_id \notin DOMAIN dic
    THEN Ok(IF parts # <<>> THEN JoinSlash(Reversed(parts)) ELSE None)
    ELSE IF current_id \in seen THEN Hang
    ELSE regenWalk(dic, dic[current_id].Parent,
                   Append(parts, dic[current_id].Name), seen \cup {current_id})

regen_reconstruct_path(dic, file_id) == regenWalk(dic, file_id, <<>>, {})

(***************************************************************************)
(* The state: the database, the two directory trees, the resume log, and   *)
(* the process that runs the copy                                          *)
(***************************************************************************)
VARIABLES
    files,            \* the Files table: a sequence of rows, in row order
    copied_files,     \* the table copied_files (the completed ledger)
    skipped_files,    \* the table skipped_files (the failed ledger)
    src,              \* the blobs below filedir, as paths relative to it
    dest,             \* the regular files below dumpdir: path -> [bytes, mtime]
    destDirs,         \* the directories below dumpdir
    log,              \* the lines of the resume log (log_file)
    args,             \* the command-line options of the runs
    mode,             \* "idle", "standard" (run_standard_copy), "resume"
    copied_log_set,   \* the global set copied_files read from log_file
    pending,          \* work not yet handed to a worker
    already_copied_set, \* run_resume_copy's snapshot of copied_files.filename
    skipped_set,      \* run_resume_copy's snapshot of skipped_files.filename
    workers,          \* the pool's threads
    counters,         \* processed_/copied_/skipped_files_counter
    results,          \* run_resume_copy's results dict
    runNo,            \* history: the number of finished runs
    h_lastMode,       \* history: what the last finished process ran
    h_destStart,      \* history: dest when the current (or last) run began
    h_copies,         \* history: copies made in the current (or last) run
    h_failedStart,    \* history: skipped_files keys when the run began
    h_events,         \* history: per record, what the current run did to it
    led,              \* ledger harness: the calls made so far
    rp,               \* path-walk harness: the walkers of the three routines
    pathCalls,        \* path harness: the calls of the path routines, with results
    retry,            \* with_retry_db harness: the call in progress
    pool,             \* lock harness: the threads of a pool, lock and semaphore
    loc,              \* locator harness: the calls of the two blob locators
    farm,             \* create_symlink_farm: the farm tree, the loop and its stats
    rg,               \* log regeneration in steps: the scan and the temp file
    schema,           \* table harness: the tables of a database file, with columns
    conns             \* connection harness: _db_connections and the database files

dbVars == <<files, copied_files, skipped_files>>
fsVars == <<src, dest, destDirs, log>>
runVars == <<args, mode, copied_log_set, pending, already_copied_set,
             skipped_set, workers, counters, results>>
histVars == <<runNo, h_lastMode, h_destStart, h_copies, h_failedStart, h_events>>
vars == <<dbVars, fsVars, runVars, histVars, led, rp, pathCalls, retry, pool, loc, farm, rg, schema, conns>>

\* str(x)
Str(x) == IF x = None THEN <<"N", "o", "n", "e">> ELSE x

(***************************************************************************)
(* The ledger tables                                                       *)
(***************************************************************************)
\* Variants of the INSERT the properties below must tell from the code's:
\* a row that is never written, and INSERT OR REPLACE.
insert_copied_file_lost(tbl, file_id, filename) == tbl

insert_copied_file_replace(tbl, file_id, filename) ==
    {r \in tbl : r.file_id # Str(file_id)}
        \cup {[file_id |-> Str(file_id), filename |-> Str(filename),
               mtime_refreshed |-> 0]}

\* INSERT OR IGNORE INTO copied_files (file_id, filename, mtime_refreshed)
\* VALUES (?, ?, 0): file_id is the PRIMARY KEY.
insert_copied_file(tbl, file_id, filename) ==
    IF \E r \in tbl : r.file_id = Str(file_id) THEN tbl
    ELSE tbl \cup {[file_id |-> Str(file_id), filename |-> Str(filename),
                    mtime_refreshed |-> 0]}

\* A variant of the INSERT below that writes no row.
insert_skipped_file_lost(tbl, filename, reason) == tbl

\* INSERT OR IGNORE INTO skipped_files (filename, reason): filename is the
\* PRIMARY KEY.
insert_skipped_file(tbl, filename, reason) ==
    IF \E r \in tbl : r.filename = Str(filename) THEN tbl
    ELSE tbl \cup {[filename |-> Str(filename), reason |-> reason]}

\* UPDATE copied_files SET mtime_refreshed=1 WHERE file_id=?
update_mtime_refreshed(tbl, file_id) ==
    {IF r.file_id = file_id THEN [r EXCEPT !.mtime_refreshed = 1] ELSE r : r \in tbl}

CompletedIds == {r.file_id : r \in copied_files}
FailedKeys == {r.filename : r \in skipped_files}

(***************************************************************************)
(* The file systems                                                        *)
(***************************************************************************)
\* os.path.basename
RECURSIVE BaseName(_)
BaseName(p) ==
    IF p = <<>> \/ <<p[Len(p)]>> = Slash THEN <<>>
    ELSE BaseName(SubSeq(p, 1, Len(p) - 1)) \o <<p[Len(p)]>>

\* os.path.join(a, b) for a relative b; the root itself is <<>>.
PathJoin(a, b) == IF a = <<>> THEN b ELSE IF b = <<>> THEN a ELSE a \o Slash \o b

\* os.path.exists below filedir (base_dir itself is <<>>)
SrcDirs(s) == UNION {Ancestors(q) : q \in s} \cup {<<>>}
SrcExists(s, p) == p \in s \/ p \in SrcDirs(s)

\* A variant of resolve_src_path that tries the subdirectory first.
resolve_src_path_sharded_first(s, cid) ==
    IF ~Truthy(cid) THEN <<>>
    ELSE IF SrcExists(s, PathJoin(<<cid[1]>>, cid)) THEN PathJoin(<<cid[1]>>, cid)
    ELSE cid

\* resolve_src_path(base_dir, cid): the flat candidate, then the
\* first-character subdirectory; the first that exists, else candidates[0].
resolve_src_path(s, cid) ==
    LET candidates == IF Truthy(cid)
                      THEN <<cid, PathJoin(<<cid[1]>>, cid)>>
                      ELSE <<<<>>>>
        hits == {i \in 1..Len(candidates) : SrcExists(s, candidates[i])}
    IN IF hits = {} THEN candidates[1]
       ELSE candidates[CHOOSE i \in hits : \A j \in hits : i <= j]

\* os.path.exists below dumpdir
DestExists(p) == p \in DOMAIN dest \/ p \in destDirs \/ p = <<>>

\* os.makedirs(os.path.dirname(p), exist_ok=True) raises when a component
\* of the directory is a regular file.
MakedirsFails(p) == Ancestors(p) \cap DOMAIN dest # {}

\* The file a copy to p writes: p itself, or, when p is a directory,
\* p/basename(source) (shutil.copy2 into a directory).
CopyTarget(p, srcp) ==
    IF p \in destDirs \/ p = <<>> THEN PathJoin(p, BaseName(srcp)) ELSE p

\* The first of imageDate, videoDate, cTime, birthTime that is a number.
BestTs(m) ==
    IF m.imageDate # NoTs THEN m.imageDate
    ELSE IF m.videoDate # NoTs THEN m.videoDate
    ELSE IF m.cTime # NoTs THEN m.cTime
    ELSE m.birthTime

\* "if ts:" -- a number other than 0
TsTruthy(ts) == ts # NoTs /\ ts # 0

BlobMtime == [from |-> "blob", secs |-> 0]
DbMtime(ts) == [from |-> "db", secs |-> ts \div 1000]
ExtFile == [bytes |-> <<"EXT">>, mtime |-> [from |-> "ext", secs |-> 0]]

(***************************************************************************)
(* regenerate_copied_files_from_dest                                       *)
(***************************************************************************)
\* The key under which a record is entered in path_to_file_id: Ok(None)
\* when it is not entered, Hang when the nested reconstruct_path never ends.
RegenKey(rows, file_id) ==
    LET dic == FileDIC(rows)
        root == getRootDirs(rows)      \* root_dirs_to_strip: the same search
        r == regen_reconstruct_path(dic, file_id)
    IN IF r.kind # "ok" THEN r
       ELSE IF ~Truthy(r.path) THEN Ok(None)
       ELSE LET k == LStrip(StripRoot(Replace(r.path, Backslash, Slash), root),
                            Slash)
            IN Ok(IF k # <<>> THEN k ELSE None)

\* The records the loop of lines 287-301 visits: those with a contentID.
RegenRecords(rows) ==
    {i \in 1..Len(DictOrder(rows)) :
        Truthy(FileDIC(rows)[DictOrder(rows)[i]].contentID)}

RegenHangs(rows) ==
    \E i \in RegenRecords(rows) : RegenKey(rows, DictOrder(rows)[i]).kind = "hang"

\* A variant of the lookup in which the first record entered under a key
\* stays.
path_to_file_id_first(rows, key) ==
    LET ord == DictOrder(rows)
        hits == {i \in RegenRecords(rows) : RegenKey(rows, ord[i]) = Ok(key)}
    IN IF key = None \/ hits = {} THEN None
       ELSE ord[CHOOSE i \in hits : \A j \in hits : i <= j]

\* path_to_file_id.get(key): the last record entered under key.
path_to_file_id(rows, key) ==
    LET ord == DictOrder(rows)
        hits == {i \in RegenRecords(rows) : RegenKey(rows, ord[i]) = Ok(key)}
    IN IF key = None \/ hits = {} THEN None ELSE ord[Max(hits)]

\* The relative path of a destination file, as line 316 normalises it.
RegenRel(fp) == LStrip(Replace(fp, Backslash, Slash), Slash)

\* The record a destination file is matched to (lines 319-324), or None.
RegenMatch(rows, fp) ==
    LET rel_path == RegenRel(fp)
        file_id == path_to_file_id(rows, rel_path)
    IN IF ~Truthy(file_id) /\ Contains(rel_path, Hyphen)
       THEN path_to_file_id(rows, Replace(rel_path, Hyphen, Pipe))
       ELSE file_id

\* The records that get a new row, and the labels a row may get: the
\* relative path of any destination file matched to the record (os.walk's
\* order decides which is inserted first; the later ones are ignored).
RegenNewIds(rows, d, tbl) ==
    {id \in {RegenMatch(rows, fp) : fp \in DOMAIN d} :
        Truthy(id) /\ Str(id) \notin {r.file_id : r \in tbl}}

RegenLabels(rows, d, id) ==
    {RegenRel(fp) : fp \in {q \in DOMAIN d : RegenMatch(rows, q) = id}}

RegenInsert(tbl, lab) ==
    tbl \cup {[file_id |-> Str(id), filename |-> lab[id], mtime_refreshed |-> 0] :
                id \in DOMAIN lab}

\* The labellings os.walk's order can produce.
RegenLabelings(rows, d, tbl) ==
    {lab \in [RegenNewIds(rows, d, tbl) -> {RegenRel(fp) : fp \in DOMAIN d}] :
        \A id \in DOMAIN lab : lab[id] \in RegenLabels(rows, d, id)}

\* The log file after os.replace(tmp_log, log_file): one line per file found.
RegenLog(d) == DOMAIN d

(***************************************************************************)
(* The databases, stores and options the runs are checked on               *)
(***************************************************************************)
MaxRuns == 2
NumWorkers == 2
Workers == 1..NumWorkers

\* --filedir, as it appears in skipnames
FileDir == <<"/", "s">>

C1id == <<"c", "1">>
K2id == <<"k", "2">>

\* An auth root above a folder; the same leaf name in two folders.
IdxTree ==
    << DirRow(<<"1">>, <<"a", "u", "t", "h", "|", "0">>, None),
       DirRow(<<"2">>, <<"d">>, <<"1">>),
       FileRow(<<"3">>, <<"p">>, <<"2">>, C1id),
       FileRow(<<"4">>, <<"p">>, <<"1">>, K2id) >>

\* Two file records with the same name in the same folder.
IdxDup ==
    << DirRow(<<"1">>, <<"d">>, None),
       FileRow(<<"2">>, <<"p">>, <<"1">>, C1id),
       FileRow(<<"3">>, <<"p">>, <<"1">>, K2id) >>

\* Two file records with the same contentID.
IdxShared ==
    << DirRow(<<"1">>, <<"d">>, None),
       FileRow(<<"2">>, <<"p">>, <<"1">>, C1id),
       FileRow(<<"3">>, <<"q">>, <<"1">>, C1id) >>

\* A parent cycle: 1 -> 2 -> 1.
IdxCycle ==
    << DirRow(<<"1">>, <<"a">>, <<"2">>),
       DirRow(<<"2">>, <<"b">>, <<"1">>),
       FileRow(<<"3">>, <<"p">>, <<"1">>, C1id),
       FileRow(<<"4">>, <<"q">>, None, K2id) >>

\* A parentID that is no key of the index.
IdxDangling ==
    << DirRow(<<"1">>, <<"d">>, <<"9">>),
       FileRow(<<"2">>, <<"p">>, <<"1">>, C1id),
       FileRow(<<"3">>, <<"q">>, None, K2id) >>

\* Names with '|' and '-'.
IdxPipe ==
    << DirRow(<<"1">>, <<"a", "|", "b">>, None),
       FileRow(<<"2">>, <<"x", "-", "y", "|", "z">>, <<"1">>, C1id),
       FileRow(<<"3">>, <<"p">>, <<"1">>, K2id) >>

Indexes == {IdxTree, IdxDup, IdxShared, IdxCycle, IdxDangling, IdxPipe}

\* The file records: rows with a contentID that are not marked a directory.
IsFileRow(r) == r.contentID # None /\ r.mimeType # DirMime
FileIds(rows) == {rows[i].id : i \in {j \in 1..Len(rows) : IsFileRow(rows[j])}}
Cids(rows) == {rows[i].contentID : i \in {j \in 1..Len(rows) : IsFileRow(rows[j])}}
RowOf(rows, id) == rows[CHOOSE i \in 1..Len(rows) : rows[i].id = id]

\* The layouts of a source store: every blob in its first-character
\* subdirectory beside a file no record names; every blob flat; the first
\* record's blob missing.
Sharded(c) == PathJoin(<<c[1]>>, c)
Stray == <<"z", "z">>
FirstFileRow(rows) ==
    rows[CHOOSE i \in 1..Len(rows) :
            IsFileRow(rows[i]) /\ \A j \in 1..(i - 1) : ~IsFileRow(rows[j])]
SrcStores(rows) ==
    LET all == {Sharded(c) : c \in Cids(rows)}
    IN {all \cup {Stray}, Cids(rows), all \ {Sharded(FirstFileRow(rows).contentID)}}

\* ReconstructPath of the specification: reconstruct_path with the auth root
\* stripped, then sanitize_path.
ReconstructPath(rows, id, sanitize) ==
    LET q == reconstruct_path(FileDIC(rows), id, find_root_dir_name(rows))
    IN IF q = None THEN None ELSE sanitize_path(q, sanitize)

\* The destination trees a run may start on: empty, or one file that was
\* put there out of band, at the first record's path or at the folder name
\* "d".
OneFile(p) == [q \in {p} |-> ExtFile]
EmptyTree == [q \in {} |-> ExtFile]
DestStarts(rows) ==
    {EmptyTree} \cup
    {OneFile(p) : p \in {ReconstructPath(rows, FirstFileRow(rows).id, FALSE),
                          <<"d">>} \ {None}}

DirsOf(d) == UNION {Ancestors(q) : q \in DOMAIN d}

\* The command lines: --sanitize-pipes is given only where a name has a '|';
\* --limit is left at its default, 0.
HasPipe(rows) == \E i \in 1..Len(rows) : Contains(rows[i].name, Pipe)
ArgSets(rows) ==
    {a \in [dry_run : BOOLEAN, sanitize_pipes : BOOLEAN, preserve_mtime : BOOLEAN,
            refresh_mtime_existing : BOOLEAN, no_regen_log : BOOLEAN, limit : {0}] :
        a.sanitize_pipes => HasPipe(rows)}

IdleWorker == [pc |-> "idle", item |-> None, fileID |-> None, path |-> None,
               srcp |-> None, status |-> "none"]
ZeroCounters == [processed |-> 0, copied |-> 0, skipped |-> 0]
ZeroResults == [copied |-> 0, skipped_already |-> 0, skipped_problem |-> 0,
                errored |-> 0, dry_run |-> 0]

\* The state of a process before it starts a run.
NoRun ==
    /\ mode = "idle"
    /\ copied_log_set = {}
    /\ pending = {}
    /\ already_copied_set = {}
    /\ skipped_set = {}
    /\ workers = [w \in Workers |-> IdleWorker]
    /\ counters = ZeroCounters
    /\ results = ZeroResults

NoHistory ==
    /\ runNo = 0
    /\ h_lastMode = "none"
    /\ h_destStart = dest
    /\ h_copies = 0
    /\ h_failedStart = {}
    /\ h_events = {}

NoHarness ==
    /\ led = <<>>
    /\ rp = <<>>
    /\ pathCalls = <<>>
    /\ retry = <<>>
    /\ pool = <<>>
    /\ loc = <<>>
    /\ farm = <<>>
    /\ rg = <<>>
    /\ schema = <<>>
    /\ conns = <<>>

\* After init_copy_tracking_tables on a database that has only Files.
Init ==
    /\ files \in Indexes
    /\ copied_files = {}
    /\ skipped_files = {}
    /\ src \in SrcStores(files)
    /\ dest \in DestStarts(files)
    /\ destDirs = DirsOf(dest)
    /\ log = {}
    /\ args \in ArgSets(files)
    /\ NoRun
    /\ NoHistory
    /\ NoHarness

(***************************************************************************)
(* run_standard_copy and copy_file                                         *)
(***************************************************************************)
\* skipnames = [filedir] + [root_dir_name]
skipnames(rows) ==
    IF Truthy(getRootDirs(rows)) THEN <<FileDir, getRootDirs(rows)>> ELSE <<FileDir>>

\* copy_file, lines 485-491: the loop assigns newpath from fullpath on every
\* round, so the last of skipnames is the one removed.
copy_file_newpath(rows, a, fullpath) ==
    LET sk == skipnames(rows)
        newpath == LStrip(Replace(fullpath, sk[Len(sk)], <<>>), Slash)
    IN IF a.sanitize_pipes THEN Replace(newpath, Pipe, Hyphen) ELSE newpath

\* The exception os.makedirs raises on a regular file in the way.
MakedirsError(p) ==
    IF DirName(p) \in DOMAIN dest THEN "FileExistsError" ELSE "NotADirectoryError"

Event(id, kind) == [id |-> id, kind |-> kind]

SetWorker(w, rec) == workers' = [workers EXCEPT ![w] = rec]

\* ThreadPoolExecutor hands a task to an idle thread; the threads are
\* interchangeable, so the first idle one stands for any of them.
TakesTask(w) ==
    /\ workers[w].pc = "idle"
    /\ \A v \in Workers : v < w => workers[v].pc # "idle"

\* History: whether the record had its row in copied_files when the worker
\* took it.
AtHandling(id) ==
    IF Str(id) \in CompletedIds THEN {Event(id, "completed_at_handling")} ELSE {}

\* __main__, lines 1032-1047, and the start of run_standard_copy.
StartStandard ==
    /\ mode = "idle"
    /\ runNo < MaxRuns
    /\ mode' = "standard"
    /\ copied_log_set' = log
    /\ pending' = src
    /\ counters' = ZeroCounters
    /\ results' = ZeroResults
    /\ h_destStart' = dest
    /\ h_copies' = 0
    /\ h_failedStart' = FailedKeys
    /\ h_events' = {}
    /\ UNCHANGED <<dbVars, fsVars, args, already_copied_set, skipped_set, workers,
                   runNo, h_lastMode, led, rp, pathCalls, retry, pool, loc, farm, rg, schema, conns>>

\* copy_file from its first line to the branch it takes (lines 476-540).
CF_Start(w, f) ==
    /\ mode = "standard"
    /\ TakesTask(w)
    /\ f \in pending
    /\ pending' = pending \ {f}
    /\ LET dic == FileDIC(files)
           file == BaseName(f)
           fileID == filenameToID(files, file)
           res == idToPath2(dic, fileID)
           newpath == copy_file_newpath(files, args, res.path)
           ts == BestTs(dic[fileID])
       IN IF fileID = None
          THEN \* not in the database (lines 601-611)
               /\ skipped_files' = insert_skipped_file(skipped_files, file, "not_in_database")
               /\ counters' = [counters EXCEPT !.processed = @ + 1, !.skipped = @ + 1]
               /\ UNCHANGED <<workers, dest, h_events>>
          ELSE IF res.kind = "hang"
          THEN /\ SetWorker(w, [IdleWorker EXCEPT !.pc = "hung", !.item = f, !.fileID = fileID])
               /\ h_events' = h_events \cup AtHandling(fileID)
               /\ UNCHANGED <<skipped_files, counters, dest>>
          ELSE IF res.kind # "ok"
          THEN \* the exception leaves copy_file; the future keeps it
               /\ h_events' = h_events \cup AtHandling(fileID) \cup {Event(fileID, "raised")}
               /\ UNCHANGED <<workers, skipped_files, counters, dest>>
          ELSE IF newpath \in copied_log_set
          THEN /\ counters' = [counters EXCEPT !.processed = @ + 1, !.skipped = @ + 1]
               /\ h_events' = h_events \cup AtHandling(fileID) \cup {Event(fileID, "already_in_log")}
               /\ UNCHANGED <<workers, skipped_files, dest>>
          ELSE IF DestExists(newpath)
          THEN /\ IF /\ args.refresh_mtime_existing /\ args.preserve_mtime
                     /\ TsTruthy(ts) /\ newpath \in DOMAIN dest
                  THEN dest' = [dest EXCEPT ![newpath].mtime = DbMtime(ts)]
                  ELSE UNCHANGED dest
               /\ counters' = [counters EXCEPT !.processed = @ + 1, !.skipped = @ + 1]
               /\ h_events' = h_events \cup AtHandling(fileID) \cup
                     {Event(fileID, "already_at_destination")} \cup
                     (IF /\ args.refresh_mtime_existing /\ args.preserve_mtime
                         /\ TsTruthy(ts)
                      THEN {Event(fileID, "utime")} ELSE {})
               /\ UNCHANGED <<workers, skipped_files>>
          ELSE IF args.dry_run
          THEN /\ counters' = [counters EXCEPT !.processed = @ + 1, !.copied = @ + 1]
               /\ h_events' = h_events \cup AtHandling(fileID) \cup {Event(fileID, "dry_run")}
               /\ UNCHANGED <<workers, skipped_files, dest>>
          ELSE /\ SetWorker(w, [IdleWorker EXCEPT !.pc = "cf_copy", !.item = f,
                                  !.fileID = fileID, !.path = newpath, !.srcp = f])
               /\ h_events' = h_events \cup AtHandling(fileID)
               /\ UNCHANGED <<skipped_files, counters, dest>>
    /\ UNCHANGED <<files, copied_files, src, destDirs, log, args, mode, copied_log_set,
                   already_copied_set, skipped_set, results, runNo, h_lastMode,
                   h_destStart, h_copies, h_failedStart, led, rp, pathCalls, retry, pool, loc, farm, rg, schema, conns>>

\* copy_file, lines 541-580: makedirs, the copy, the mtime and its flag.
CF_Copy(w) ==
    LET me == workers[w]
        ts == BestTs(FileDIC(files)[me.fileID])
        target == CopyTarget(me.path, me.srcp)
        setm == args.preserve_mtime /\ TsTruthy(ts)
    IN
    /\ mode = "standard"
    /\ me.pc = "cf_copy"
    /\ IF MakedirsFails(me.path)
       THEN /\ SetWorker(w, [me EXCEPT !.pc = "cf_except", !.status = MakedirsError(me.path)])
            /\ h_events' = h_events \cup {Event(me.fileID, "copy_attempt")}
            /\ UNCHANGED <<dest, destDirs, copied_files, h_copies>>
       ELSE /\ destDirs' = destDirs \cup Ancestors(me.path)
            /\ dest' = (target :> [bytes |-> BaseName(me.srcp),
                                   mtime |-> IF setm /\ target = me.path
                                             THEN DbMtime(ts) ELSE BlobMtime])
                       @@ dest
            /\ copied_files' = IF setm THEN update_mtime_refreshed(copied_files, me.fileID)
                               ELSE copied_files
            /\ h_copies' = h_copies + 1
            /\ h_events' = h_events \cup
                  {Event(me.fileID, "copy_attempt"), Event(me.fileID, "copied")}
            /\ SetWorker(w, [me EXCEPT !.pc = "cf_count"])
    /\ UNCHANGED <<files, skipped_files, src, log, args, mode, copied_log_set, pending,
                   already_copied_set, skipped_set, counters, results, runNo,
                   h_lastMode, h_destStart, h_failedStart, led, rp, pathCalls, retry, pool, loc, farm, rg, schema, conns>>

\* copy_file, lines 581-589: the counters, then the line in the resume log.
CF_Count(w) ==
    LET me == workers[w] IN
    /\ mode = "standard"
    /\ me.pc = "cf_count"
    /\ counters' = [counters EXCEPT !.processed = @ + 1, !.copied = @ + 1]
    /\ log' = log \cup {me.path}
    /\ h_events' = h_events \cup {Event(me.fileID, "counted")}
    /\ SetWorker(w, [me EXCEPT !.pc = "cf_ledger"])
    /\ UNCHANGED <<dbVars, src, dest, destDirs, args, mode, copied_log_set, pending,
                   already_copied_set, skipped_set, results, runNo, h_lastMode,
                   h_destStart, h_copies, h_failedStart, led, rp, pathCalls, retry, pool, loc, farm, rg, schema, conns>>

\* copy_file, lines 590-593.
CF_Ledger(w) ==
    LET me == workers[w] IN
    /\ mode = "standard"
    /\ me.pc = "cf_ledger"
    /\ copied_files' = insert_copied_file(copied_files, me.fileID,
                                          FileDIC(files)[me.fileID].contentID)
    /\ h_events' = h_events \cup {Event(me.fileID, "ledger")}
    /\ SetWorker(w, IdleWorker)
    /\ UNCHANGED <<files, skipped_files, fsVars, args, mode, copied_log_set, pending,
                   already_copied_set, skipped_set, counters, results, runNo,
                   h_lastMode, h_destStart, h_copies, h_failedStart, led, rp, pathCalls, retry, pool, loc, farm, rg, schema, conns>>

\* copy_file, lines 594-600.
CF_Except(w) ==
    LET me == workers[w] IN
    /\ mode = "standard"
    /\ me.pc = "cf_except"
    /\ skipped_files' = insert_skipped_file(skipped_files,
                            FileDIC(files)[me.fileID].contentID,
                            "copy_error: " \o me.status)
    /\ SetWorker(w, IdleWorker)
    /\ UNCHANGED <<files, copied_files, fsVars, args, mode, copied_log_set, pending,
                   already_copied_set, skipped_set, counters, results, histVars,
                   led, rp, pathCalls, retry, pool, loc, farm, rg, schema, conns>>

(***************************************************************************)
(* --regen-log, run_resume_copy and copy_worker                            *)
(***************************************************************************)
\* --regen-log / --create_log: regenerate_copied_files_from_dest, then exit.
\* On a parent cycle the lookup is never built and the process never ends.
RegenOnly ==
    /\ mode = "idle"
    /\ IF RegenHangs(files)
       THEN /\ mode' = "hung"
            /\ UNCHANGED <<copied_files, log>>
       ELSE /\ \E lab \in RegenLabelings(files, dest, copied_files) :
                   copied_files' = RegenInsert(copied_files, lab)
            /\ log' = RegenLog(dest)
            /\ UNCHANGED mode
    /\ h_lastMode' = "regen"
    /\ UNCHANGED <<files, skipped_files, src, dest, destDirs, args, copied_log_set,
                   pending, already_copied_set, skipped_set, workers, counters,
                   results, runNo, h_destStart, h_copies, h_failedStart, h_events,
                   led, rp, pathCalls, retry, pool, loc, farm, rg, schema, conns>>

\* The rows of files_to_copy (lines 1168-1174): no row in copied_files under
\* the id, and no row in skipped_files under the contentID (a NULL contentID
\* joins with nothing).
files_to_copy(rows, ctbl, stbl) ==
    {rows[i].id : i \in {j \in 1..Len(rows) :
        /\ rows[j].id \notin {r.file_id : r \in ctbl}
        /\ rows[j].contentID \notin {r.filename : r \in stbl}}}

\* run_resume_copy up to the start of the pool (lines 1153-1198).
StartResume ==
    /\ mode = "idle"
    /\ runNo < MaxRuns
    /\ IF ~args.no_regen_log /\ RegenHangs(files)
       THEN /\ mode' = "hung"
            /\ UNCHANGED <<copied_files, log, pending, already_copied_set,
                           skipped_set>>
       ELSE /\ IF args.no_regen_log
               THEN UNCHANGED <<copied_files, log>>
               ELSE /\ \E lab \in RegenLabelings(files, dest, copied_files) :
                          copied_files' = RegenInsert(copied_files, lab)
                    /\ log' = RegenLog(dest)
            /\ mode' = "resume"
            /\ pending' = files_to_copy(files, copied_files', skipped_files)
            /\ already_copied_set' = {r.filename : r \in copied_files'}
            /\ skipped_set' = FailedKeys
    /\ copied_log_set' = log
    /\ counters' = ZeroCounters
    /\ results' = ZeroResults
    /\ h_destStart' = dest
    /\ h_copies' = 0
    /\ h_failedStart' = FailedKeys
    /\ h_events' = {}
    /\ UNCHANGED <<files, skipped_files, src, dest, destDirs, args, workers, runNo,
                   h_lastMode, led, rp, pathCalls, retry, pool, loc, farm, rg, schema, conns>>

\* copy_worker, lines 1214-1221.
copy_worker_rel_path(rows, a, fullpath) ==
    LET sk == skipnames(rows)
        r1 == Replace(fullpath, sk[1], <<>>)
        r2 == IF Len(sk) > 1 THEN Replace(r1, sk[2], <<>>) ELSE r1
        r3 == IF a.sanitize_pipes THEN Replace(r2, Pipe, Hyphen) ELSE r2
    IN LStrip(r3, Slash)

Return(w, me, status) == SetWorker(w, [me EXCEPT !.pc = "cw_returned", !.status = status])

\* copy_worker from its first line to the copy (lines 1201-1252).
CW_Start(w, id) ==
    /\ mode = "resume"
    /\ TakesTask(w)
    /\ id \in pending
    /\ pending' = pending \ {id}
    /\ LET row == RowOf(files, id)
           content_id == row.contentID
           me == [IdleWorker EXCEPT !.item = id, !.fileID = id]
           res == idToPath2(FileDIC(files), id)
           dest_path == copy_worker_rel_path(files, args, res.path)
           src_path == resolve_src_path(src, content_id)
           ts == BestTs(row)
           setm == args.preserve_mtime /\ TsTruthy(ts)
       IN IF row.mimeType = DirMime \/ content_id = None
          THEN /\ Return(w, me, "skipped_problem")
               /\ UNCHANGED <<copied_files, skipped_files, dest, destDirs, h_events>>
          ELSE IF Truthy(content_id) /\ content_id \in already_copied_set
          THEN /\ Return(w, me, "skipped_already")
               /\ h_events' = h_events \cup AtHandling(id) \cup {Event(id, "already_copied_set")}
               /\ UNCHANGED <<copied_files, skipped_files, dest, destDirs>>
          ELSE IF Truthy(content_id) /\ content_id \in skipped_set
          THEN /\ Return(w, me, "skipped_problem")
               /\ UNCHANGED <<copied_files, skipped_files, dest, destDirs, h_events>>
          ELSE IF args.dry_run
          THEN /\ Return(w, me, "dry_run")
               /\ h_events' = h_events \cup AtHandling(id) \cup {Event(id, "dry_run")}
               /\ UNCHANGED <<copied_files, skipped_files, dest, destDirs>>
          ELSE IF res.kind = "hang"
          THEN /\ SetWorker(w, [me EXCEPT !.pc = "hung"])
               /\ UNCHANGED <<copied_files, skipped_files, dest, destDirs, h_events>>
          ELSE IF res.kind # "ok"
          THEN /\ SetWorker(w, [me EXCEPT !.pc = "cw_except", !.status = res.kind])
               /\ h_events' = h_events \cup AtHandling(id) \cup {Event(id, "raised")}
               /\ UNCHANGED <<copied_files, skipped_files, dest, destDirs>>
          ELSE IF ~SrcExists(src, src_path)
          THEN /\ skipped_files' = insert_skipped_file(skipped_files, content_id,
                                                       "source_missing")
               /\ Return(w, me, "skipped_problem")
               /\ UNCHANGED <<copied_files, dest, destDirs, h_events>>
          ELSE IF MakedirsFails(dest_path)
          THEN /\ SetWorker(w, [me EXCEPT !.pc = "cw_except",
                                  !.status = MakedirsError(dest_path)])
               /\ h_events' = h_events \cup AtHandling(id) \cup {Event(id, "copy_attempt")}
               /\ UNCHANGED <<copied_files, skipped_files, dest, destDirs>>
          ELSE IF DestExists(dest_path) /\ args.refresh_mtime_existing
          THEN \* the file is there: refresh its mtime, record it
               /\ destDirs' = destDirs \cup Ancestors(dest_path)
               /\ IF setm /\ dest_path \in DOMAIN dest
                  THEN dest' = [dest EXCEPT ![dest_path].mtime = DbMtime(ts)]
                  ELSE UNCHANGED dest
               /\ copied_files' = IF setm THEN update_mtime_refreshed(copied_files, id)
                                  ELSE copied_files
               /\ h_events' = h_events \cup AtHandling(id) \cup
                     {Event(id, "already_at_destination")} \cup
                     (IF setm THEN {Event(id, "utime")} ELSE {})
               /\ SetWorker(w, [me EXCEPT !.pc = "cw_ledger", !.path = dest_path,
                                  !.srcp = src_path, !.status = "skipped_already"])
               /\ UNCHANGED skipped_files
          ELSE /\ destDirs' = destDirs \cup Ancestors(dest_path)
               /\ SetWorker(w, [me EXCEPT !.pc = "cw_copy", !.path = dest_path,
                                  !.srcp = src_path])
               /\ h_events' = h_events \cup AtHandling(id)
               /\ UNCHANGED <<copied_files, skipped_files, dest>>
    /\ UNCHANGED <<files, src, log, args, mode, copied_log_set, already_copied_set,
                   skipped_set, counters, results, runNo, h_lastMode, h_destStart,
                   h_copies, h_failedStart, led, rp, pathCalls, retry, pool, loc, farm, rg, schema, conns>>

\* copy_worker, lines 1253-1266: shutil.copy2 under io_semaphore, then the
\* mtime.  A source path that is a directory makes copy2 raise.
CW_Copy(w) ==
    LET me == workers[w]
        ts == BestTs(RowOf(files, me.fileID))
        target == CopyTarget(me.path, me.srcp)
        setm == args.preserve_mtime /\ TsTruthy(ts)
    IN
    /\ mode = "resume"
    /\ me.pc = "cw_copy"
    /\ IF me.srcp \notin src
       THEN /\ SetWorker(w, [me EXCEPT !.pc = "cw_except", !.status = "IsADirectoryError"])
            /\ h_events' = h_events \cup {Event(me.fileID, "copy_attempt")}
            /\ UNCHANGED <<dest, h_copies>>
       ELSE /\ dest' = (target :> [bytes |-> BaseName(me.srcp),
                                   mtime |-> IF setm /\ target = me.path
                                             THEN DbMtime(ts) ELSE BlobMtime])
                       @@ dest
            /\ h_copies' = h_copies + 1
            /\ h_events' = h_events \cup
                  {Event(me.fileID, "copy_attempt"), Event(me.fileID, "copied")} \cup
                  (IF setm THEN {Event(me.fileID, "utime")} ELSE {})
            /\ SetWorker(w, [me EXCEPT !.pc = "cw_ledger", !.status = "copied"])
    /\ UNCHANGED <<dbVars, src, destDirs, log, args, mode, copied_log_set, pending,
                   already_copied_set, skipped_set, counters, results, runNo,
                   h_lastMode, h_destStart, h_failedStart, led, rp, pathCalls, retry, pool, loc, farm, rg, schema, conns>>

\* copy_worker, lines 1251-1252 and 1267-1270: the ledger row, then return.
CW_Ledger(w) ==
    LET me == workers[w] IN
    /\ mode = "resume"
    /\ me.pc = "cw_ledger"
    /\ copied_files' = insert_copied_file(copied_files, me.fileID,
                                          RowOf(files, me.fileID).contentID)
    /\ h_events' = h_events \cup {Event(me.fileID, "ledger")}
    /\ SetWorker(w, [me EXCEPT !.pc = "cw_returned"])
    /\ UNCHANGED <<files, skipped_files, fsVars, args, mode, copied_log_set, pending,
                   already_copied_set, skipped_set, counters, results, runNo,
                   h_lastMode, h_destStart, h_copies, h_failedStart, led, rp, pathCalls, retry, pool, loc, farm, rg, schema, conns>>

\* copy_worker, lines 1271-1276.
CW_Except(w) ==
    LET me == workers[w]
        row == RowOf(files, me.fileID)
    IN
    /\ mode = "resume"
    /\ me.pc = "cw_except"
    /\ skipped_files' = insert_skipped_file(skipped_files,
                            IF Truthy(row.contentID) THEN row.contentID ELSE row.name,
                            "copy_error: " \o me.status)
    /\ SetWorker(w, [me EXCEPT !.pc = "cw_returned", !.status = "errored"])
    /\ UNCHANGED <<files, copied_files, fsVars, args, mode, copied_log_set, pending,
                   already_copied_set, skipped_set, counters, results, histVars,
                   led, rp, pathCalls, retry, pool, loc, farm, rg, schema, conns>>

\* run_resume_copy, lines 1279-1280: the main thread counts a result.
CW_Collect(w) ==
    LET me == workers[w] IN
    /\ mode = "resume"
    /\ me.pc = "cw_returned"
    /\ results' = [results EXCEPT ![me.status] = @ + 1]
    /\ h_events' = IF me.status = "copied"
                   THEN h_events \cup {Event(me.fileID, "counted")} ELSE h_events
    /\ SetWorker(w, IdleWorker)
    /\ UNCHANGED <<dbVars, fsVars, args, mode, copied_log_set, pending,
                   already_copied_set, skipped_set, counters, runNo, h_lastMode,
                   h_destStart, h_copies, h_failedStart, led, rp, pathCalls, retry, pool, loc, farm, rg, schema, conns>>

\* The pool has drained and the run's summary is printed; the process ends
\* (close_all_db_connections).
EndRun ==
    /\ mode \in {"standard", "resume"}
    /\ pending = {}
    /\ \A w \in Workers : workers[w].pc = "idle"
    /\ mode' = "idle"
    /\ runNo' = runNo + 1
    /\ h_lastMode' = mode
    /\ UNCHANGED <<dbVars, fsVars, args, copied_log_set, pending, already_copied_set,
                   skipped_set, workers, counters, results, h_destStart, h_copies,
                   h_failedStart, h_events, led, rp, pathCalls, retry, pool, loc, farm, rg, schema, conns>>

Next ==
    \/ StartStandard
    \/ \E w \in Workers : \E f \in pending : CF_Start(w, f)
    \/ \E w \in Workers : CF_Copy(w)
    \/ \E w \in Workers : CF_Count(w)
    \/ \E w \in Workers : CF_Ledger(w)
    \/ \E w \in Workers : CF_Except(w)
    \/ RegenOnly
    \/ StartResume
    \/ \E w \in Workers : \E id \in pending : CW_Start(w, id)
    \/ \E w \in Workers : CW_Copy(w)
    \/ \E w \in Workers : CW_Ledger(w)
    \/ \E w \in Workers : CW_Except(w)
    \/ \E w \in Workers : CW_Collect(w)
    \/ EndRun

Spec == Init /\ [][Next]_vars

(***************************************************************************)
(* The ledger inserts on their own: any sequence of calls                  *)
(***************************************************************************)
MaxCalls == 3

DefaultArgs ==
    [dry_run |-> FALSE, sanitize_pipes |-> FALSE, preserve_mtime |-> FALSE,
     refresh_mtime_existing |-> FALSE, no_regen_log |-> FALSE, limit |-> 0]

\* A database and directories nothing runs on.
Parked ==
    /\ skipped_files = {}
    /\ copied_files = {}
    /\ src = {}
    /\ destDirs = DirsOf(dest)
    /\ log = {}
    /\ args = DefaultArgs
    /\ NoRun
    /\ NoHistory

InitLedger ==
    /\ files = IdxTree
    /\ dest = EmptyTree
    /\ Parked
    /\ NoHarness

LedgerLabels == {C1id, K2id}
LedgerReasons == {"source_missing", "copy_error: OSError"}

\* A call insert_copied_file(db, file_id, filename); led keeps the calls.
CallInsertCopied ==
    /\ Len(led) < MaxCalls
    /\ \E file_id \in FileIds(files), filename \in LedgerLabels :
          /\ copied_files' = insert_copied_file(copied_files, file_id, filename)
          /\ led' = Append(led, [op |-> "copied", key |-> Str(file_id),
                                 value |-> Str(filename)])
    /\ UNCHANGED <<files, skipped_files, fsVars, runVars, histVars, rp, pathCalls, retry, pool, loc, farm, rg, schema, conns>>

\* A call insert_skipped_file(db, filename, reason).
CallInsertSkipped ==
    /\ Len(led) < MaxCalls
    /\ \E filename \in Cids(files), reason \in LedgerReasons :
          /\ skipped_files' = insert_skipped_file(skipped_files, filename, reason)
          /\ led' = Append(led, [op |-> "skipped", key |-> Str(filename),
                                 value |-> reason])
    /\ UNCHANGED <<files, copied_files, fsVars, runVars, histVars, rp, pathCalls, retry, pool, loc, farm, rg, schema, conns>>

NextLedger == CallInsertCopied \/ CallInsertSkipped

SpecLedger == InitLedger /\ [][NextLedger]_vars

(***************************************************************************)
(* --regen-log on its own: any destination tree, an empty ledger           *)
(***************************************************************************)
\* A file in the destination that no record names; its name has a '-'.
Unrelated == <<"u", "-", "v">>

\* The places a destination file may be at: a record's path, that path as a
\* --sanitize-pipes run writes it, and the unrelated file.
RegenPaths(rows) ==
    ({ReconstructPath(rows, id, b) : id \in FileIds(rows), b \in BOOLEAN} \ {None})
        \cup {Unrelated}

RegenDests(rows) == {[q \in S |-> ExtFile] : S \in SUBSET RegenPaths(rows)}

InitRegen ==
    /\ files \in Indexes
    /\ dest \in RegenDests(files)
    /\ Parked
    /\ NoHarness

NextRegen == RegenOnly

SpecRegen == InitRegen /\ [][NextRegen]_vars

(***************************************************************************)
(* The path walks, one loop round at a time                                *)
(***************************************************************************)
\* The components a path under construction is kept to: a walk round a
\* parent cycle grows its path without end; the model keeps MaxSegments
\* components of it and whether the number of loop rounds is odd.
MaxSegments == 4

\* A record that is its own parent.
IdxSelf ==
    << DirRow(<<"1">>, <<"d">>, <<"1">>),
       FileRow(<<"2">>, <<"p">>, <<"1">>, C1id),
       FileRow(<<"3">>, <<"q">>, None, K2id) >>

PathIndexes == Indexes \cup {IdxSelf}

Routines == {"idToPath2", "regen", "farm"}

RowIds(rows) == {rows[i].id : i \in 1..Len(rows)}

RECURSIVE Count(_, _)
Count(s, c) ==
    IF s = <<>> THEN 0 ELSE (IF <<s[1]>> = c THEN 1 ELSE 0) + Count(Tail(s), c)

\* name + "/" + path
PrependName(name, path) ==
    IF Count(path, Slash) + 1 < MaxSegments THEN name \o Slash \o path ELSE path

\* parts.append(name), path_parts.insert(0, name)
AppendPart(parts, name) ==
    IF Len(parts) < MaxSegments THEN Append(parts, name) ELSE parts
InsertPart(parts, name) ==
    IF Len(parts) < MaxSegments THEN <<name>> \o parts ELSE parts

CallOf(routine, file_id) ==
    [routine |-> routine, file_id |-> file_id, pc |-> "call", cur |-> None,
     acc |-> <<>>, visited |-> {}, odd |-> FALSE, result |-> None]

InitPath ==
    /\ files \in PathIndexes
    /\ dest = EmptyTree
    /\ Parked
    /\ led = <<>>
    /\ pathCalls = <<>>
    /\ retry = <<>>
    /\ pool = <<>>
    /\ loc = <<>>
    /\ farm = <<>>
    /\ rg = <<>>
    /\ schema = <<>>
    /\ conns = <<>>
    /\ rp \in {CallOf(r, id) : r \in Routines, id \in RowIds(files)}

WalkVars == <<dbVars, fsVars, runVars, histVars, led, pathCalls, retry, pool, loc, farm, rg, schema, conns>>

\* idToPath2 and findTree (restsdk_public.py lines 380-407).
IdToPath2Step ==
    LET dic == FileDIC(files) IN
    /\ rp.routine = "idToPath2"
    /\ \/ /\ rp.pc = "call"
          /\ LET value == dic[rp.file_id]
                 parent == value.Parent
             IN rp' = IF parent = None
                      THEN [rp EXCEPT !.pc = "returned", !.result = value.Name]
                      ELSE IF parent \notin DOMAIN dic    \* fileDIC[parent]
                      THEN [rp EXCEPT !.pc = "raised", !.result = <<"KeyError">>]
                      ELSE [rp EXCEPT !.pc = "while", !.cur = parent,
                                      !.acc = dic[parent].Name \o Slash \o value.Name]
       \/ /\ rp.pc = "while"
          /\ rp' = IF dic[rp.cur].Parent = None             \* hasAnotherParent
                   THEN [rp EXCEPT !.pc = "returned", !.result = rp.acc]
                   ELSE LET nxt == dic[rp.cur].Parent       \* findNextParent
                        IN IF nxt \notin DOMAIN dic         \* fileDIC[current_parent]
                           THEN [rp EXCEPT !.pc = "raised", !.result = <<"KeyError">>]
                           ELSE [rp EXCEPT !.cur = nxt, !.odd = ~@,
                                           !.acc = PrependName(dic[nxt].Name, rp.acc)]
    /\ UNCHANGED WalkVars

\* The reconstruct_path nested in regenerate_copied_files_from_dest
\* (restsdk_public.py lines 263-273).
RegenPathStep ==
    LET dic == FileDIC(files) IN
    /\ rp.routine = "regen"
    /\ \/ /\ rp.pc = "call"
          /\ rp' = [rp EXCEPT !.pc = "while", !.cur = rp.file_id]
       \/ /\ rp.pc = "while"
          /\ rp' = IF rp.cur = None \/ rp.cur \notin DOMAIN dic
                   THEN [rp EXCEPT !.pc = "returned",
                                   !.result = IF rp.acc # <<>>
                                              THEN JoinSlash(Reversed(rp.acc))
                                              ELSE None]
                   ELSE [rp EXCEPT !.acc = AppendPart(rp.acc, dic[rp.cur].Name),
                                   !.cur = dic[rp.cur].Parent, !.odd = ~@]
    /\ UNCHANGED WalkVars

\* reconstruct_path of create_symlink_farm.py (lines 206-256).
FarmPathStep ==
    LET dic == FileDIC(files) IN
    /\ rp.routine = "farm"
    /\ \/ /\ rp.pc = "call"
          /\ rp' = [rp EXCEPT !.pc = "while", !.cur = dic[rp.file_id].Parent,
                              !.acc = <<dic[rp.file_id].Name>>,
                              !.visited = {rp.file_id}]
       \/ /\ rp.pc = "while"
          /\ rp' = IF rp.cur = None \/ rp.cur \notin DOMAIN dic \/ rp.cur \in rp.visited
                   THEN LET full == LStrip(StripRoot(Replace(JoinSlash(rp.acc),
                                                            Backslash, Slash),
                                                    find_root_dir_name(files)),
                                           Slash)
                        IN [rp EXCEPT !.pc = "returned",
                                      !.result = IF full # <<>> THEN full ELSE None]
                   ELSE [rp EXCEPT !.visited = @ \cup {rp.cur},
                                   !.acc = InsertPart(rp.acc, dic[rp.cur].Name),
                                   !.cur = dic[rp.cur].Parent, !.odd = ~@]
    /\ UNCHANGED WalkVars

NextPath == IdToPath2Step \/ RegenPathStep \/ FarmPathStep

SpecPath == InitPath /\ [][NextPath]_vars

\* A running thread goes on running: the loop takes its next round.
FairSpecPath == SpecPath /\ WF_vars(NextPath)

(***************************************************************************)
(* Properties of the transfer runs                                         *)
(***************************************************************************)
\* The pool has drained: the state in which the run prints its summary.
RunFinished ==
    /\ mode \in {"standard", "resume"}
    /\ pending = {}
    /\ \A w \in Workers : workers[w].pc = "idle"

\* The first run of a database: into an empty destination, with the blob of
\* every file record in the source store and nothing else in it.
FirstFullRun ==
    /\ RunFinished
    /\ runNo = 0
    /\ h_lastMode = "none"
    /\ h_destStart = EmptyTree
    /\ ~args.dry_run
    /\ \A c \in Cids(files) : resolve_src_path(src, c) \in src
    /\ \A q \in src : BaseName(q) \in Cids(files)

\* C1: when a run into an empty destination finishes, for an index whose
\* file records all have their blob in the source store, every file record
\* has a destination file at ReconstructPath(id) holding its blob's bytes,
\* and copied_files holds exactly one row per file record, keyed by its id,
\* and skipped_files is empty.
C1_MaterializeAll ==
    FirstFullRun =>
        /\ \A id \in FileIds(files) :
              LET q == ReconstructPath(files, id, args.sanitize_pipes)
              IN /\ q \in DOMAIN dest
                 /\ dest[q].bytes = RowOf(files, id).contentID
        /\ CompletedIds = FileIds(files)
        /\ Cardinality(copied_files) = Cardinality(FileIds(files))
        /\ skipped_files = {}

\* The second of two runs of the same mode, nothing having run in between.
SecondRunFinished ==
    /\ RunFinished
    /\ runNo = 1
    /\ h_lastMode = mode
    /\ ~args.dry_run

C4_FailedNeverRetried ==
    \A e \in h_events :
        e.kind = "copy_attempt" =>
            RowOf(files, e.id).contentID \notin h_failedStart

\* C5: for a record that has its row in copied_files when a worker takes it,
\* the worker performs no file-system operation: no copy attempt (mkdir,
\* copy, overwrite) and no utime.  (The claim also names the outcome,
\* AlreadyCompleted; the file-system half is the one checked here.)
C5_NoFileOpOnCompleted ==
    \A e \in h_events :
        e.kind = "completed_at_handling" =>
            \A k \in {"copy_attempt", "copied", "utime"} :
                Event(e.id, k) \notin h_events

\* C6: a record's row in copied_files is written only after its copy has
\* succeeded (or its file was found in place), and the record is counted as
\* copied only after that row is written.
C6_CopyThenLedgerThenCount ==
    \A e \in h_events :
        /\ e.kind = "ledger" =>
              \/ Event(e.id, "copied") \in h_events
              \/ Event(e.id, "already_at_destination") \in h_events
        /\ e.kind = "counted" => Event(e.id, "ledger") \in h_events

\* C8: no file record has at once a row in copied_files under its id and a
\* row in skipped_files under its contentID.
C8_NeverCompletedAndFailed ==
    \A i \in 1..Len(files) :
        IsFileRow(files[i]) =>
            ~(Str(files[i].id) \in CompletedIds /\ files[i].contentID \in FailedKeys)

(***************************************************************************)
(* Properties of the ledger inserts                                        *)
(***************************************************************************)
CallsOf(op) == {i \in 1..Len(led) : led[i].op = op}
FirstCall(op, key) ==
    CHOOSE i \in CallsOf(op) :
        /\ led[i].key = key
        /\ \A j \in CallsOf(op) : led[j].key = key => i <= j

\* C7: after any sequence of insert_copied_file and insert_skipped_file
\* calls each table holds exactly one row per key that was inserted and no
\* other row, and the row has the values of the first insert of its key (a
\* repeated insert is ignored, it reports nothing).
C7_InsertIfAbsent ==
    /\ {r.file_id : r \in copied_files} = {led[i].key : i \in CallsOf("copied")}
    /\ {r.filename : r \in skipped_files} = {led[i].key : i \in CallsOf("skipped")}
    /\ \A i \in CallsOf("copied") :
          {r \in copied_files : r.file_id = led[i].key} =
             {[file_id |-> led[i].key,
               filename |-> led[FirstCall("copied", led[i].key)].value,
               mtime_refreshed |-> 0]}
    /\ \A i \in CallsOf("skipped") :
          {r \in skipped_files : r.filename = led[i].key} =
             {[filename |-> led[i].key,
               reason |-> led[FirstCall("skipped", led[i].key)].value]}

\* The same file_id inserted twice, the second time with another filename.
C7_Witness ==
    /\ \E i, j \in CallsOf("copied") :
          i < j /\ led[i].key = led[j].key /\ led[i].value # led[j].value
    /\ Len(led) = MaxCalls

(***************************************************************************)
(* Properties of --regen-log                                               *)
(***************************************************************************)
RegenDone == mode = "idle" /\ h_lastMode = "regen"

LookupPath(rows, fp) ==
    IF \E id \in FileIds(rows) : ReconstructPath(rows, id, FALSE) = fp THEN fp
    ELSE IF Contains(fp, Hyphen) THEN Replace(fp, Hyphen, Pipe)
    ELSE None

\* The last file record of the index, in row order, whose path is q.
LastRecordAt(rows, q) ==
    LET hits == {i \in 1..Len(rows) :
                    /\ IsFileRow(rows[i])
                    /\ ReconstructPath(rows, rows[i].id, FALSE) = q}
    IN IF q = None \/ hits = {} THEN None ELSE rows[Max(hits)].id

C10_SanitizedPathMatched ==
    RegenDone =>
        \A id \in FileIds(files) :
            LET q == ReconstructPath(files, id, FALSE)
            IN (Contains(q, Pipe) /\ Replace(q, Pipe, Hyphen) \in DOMAIN dest)
                  => Str(id) \in CompletedIds

(***************************************************************************)
(* Properties of the path walks                                            *)
(***************************************************************************)
\* C3: every walk ends: on every index and for every record id the routine
\* leaves its loop, by returning or, at worst, by raising.  (The claim asks
\* for more, a return without a raise; a walk that never ends refutes it.)
C3_WalkEnds == <>(rp.pc \in {"returned", "raised"})

(***************************************************************************)
(* The path routines called on one index, one call after another           *)
(***************************************************************************)
MaxPathCalls == 2

\* A file name with a backslash.
IdxBackslash ==
    << DirRow(<<"1">>, <<"d">>, None),
       FileRow(<<"2">>, <<"a", "\\", "b">>, <<"1">>, C1id),
       FileRow(<<"3">>, <<"q">>, None, K2id) >>

\* An auth root above a folder whose name ends in the auth root's name.
AuthRoot == <<"a", "u", "t", "h", "|">>
IdxNested ==
    << DirRow(<<"1">>, AuthRoot, None),
       DirRow(<<"2">>, <<"x">> \o AuthRoot, <<"1">>),
       FileRow(<<"3">>, <<"p">>, <<"2">>, C1id),
       FileRow(<<"4">>, <<"q">>, <<"1">>, K2id) >>

CallIndexes == PathIndexes \cup {IdxBackslash, IdxNested}

\* The orders in which SELECT ... FROM files may hand over the same rows.
LoadOrders(rows) == {rows, Reversed(rows)}

\* The names a caller may pass as root_dir_to_strip: none, or a name that
\* has both 'auth' and '|'.
RootArgs(rows) ==
    {None} \cup {rows[i].name : i \in {j \in 1..Len(rows) : IsAuthName(rows[j].name)}}

\* A reconstruct_path that takes the root from the first auth name of the
\* dict instead of from its argument.
ReconstructPathWith_first_root(rows, file_id, root_dir, sanitize_pipes) ==
    LET q == reconstruct_path(FileDIC(rows), file_id, find_root_dir_name(rows))
    IN IF q = None THEN None ELSE sanitize_path(q, sanitize_pipes)

\* create_symlink_farm.py: reconstruct_path(file_id, file_dic, root_dir),
\* then sanitize_path, for a file_dic loaded from rows.
ReconstructPathWith(rows, file_id, root_dir, sanitize_pipes) ==
    LET q == reconstruct_path(FileDIC(rows), file_id, root_dir)
    IN IF q = None THEN None ELSE sanitize_path(q, sanitize_pipes)

\* copy_worker, lines 1214-1221: idToPath2, then the skipnames, the pipes
\* and the leading separator.
TransferRelPath(rows, file_id, sanitize_pipes) ==
    LET r == idToPath2(FileDIC(rows), file_id)
    IN IF r.kind # "ok" THEN r
       ELSE Ok(copy_worker_rel_path(rows,
                  [DefaultArgs EXCEPT !.sanitize_pipes = sanitize_pipes], r.path))

InitCalls ==
    /\ \E rows \in CallIndexes : files \in LoadOrders(rows)
    /\ dest = EmptyTree
    /\ Parked
    /\ NoHarness

\* One record id handed to the three engines: the transfer engine's
\* relative path, the key regenerate_copied_files_from_dest enters the
\* record under, and the symlink farm's path.
CallPath ==
    /\ Len(pathCalls) < MaxPathCalls
    /\ \E file_id \in RowIds(files), root_dir \in RootArgs(files),
          sanitize_pipes \in BOOLEAN :
          pathCalls' = Append(pathCalls,
              [file_id |-> file_id, root_dir |-> root_dir,
               sanitize_pipes |-> sanitize_pipes,
               transfer |-> TransferRelPath(files, file_id, sanitize_pipes),
               regen |-> RegenKey(files, file_id),
               farm |-> ReconstructPathWith(files, file_id, root_dir,
                                            sanitize_pipes)])
    /\ UNCHANGED <<dbVars, fsVars, runVars, histVars, led, rp, retry, pool, loc, farm, rg, schema, conns>>

NextCalls == CallPath

SpecCalls == InitCalls /\ [][NextCalls]_vars

(***************************************************************************)
(* Properties of the path routines                                         *)
(***************************************************************************)
CallIds == 1..Len(pathCalls)

\* C11: for every file record id, with --sanitize-pipes off, the relative
\* destination path copy_worker computes (idToPath2, skipnames removed) is the
\* path regenerate_copied_files_from_dest computes for the same id.
C11_TransferEqualsRegen ==
    \A i \in CallIds :
        (pathCalls[i].file_id \in FileIds(files) /\ ~pathCalls[i].sanitize_pipes)
            => pathCalls[i].transfer = pathCalls[i].regen

RECURSIVE Rooted(_, _, _)
Rooted(dic, id, fuel) ==
    /\ id \in DOMAIN dic
    /\ \/ dic[id].Parent = None
       \/ fuel > 0 /\ Rooted(dic, dic[id].Parent, fuel - 1)

\* The names on the chain of a rooted record, the topmost first.
RECURSIVE ChainNames(_, _)
ChainNames(dic, id) ==
    IF dic[id].Parent = None THEN <<dic[id].Name>>
    ELSE Append(ChainNames(dic, dic[id].Parent), dic[id].Name)

StartsWith(s, prefix) ==
    Len(s) >= Len(prefix) /\ SubSeq(s, 1, Len(prefix)) = prefix

\* C13: for a file record whose topmost ancestor is an auth root R,
\* reconstruct_path with root_dir_to_strip = R's name returns the names of
\* the ancestors below R and the record's name joined by '/', and nothing
\* that starts with R's name.
C13_RootStripped ==
    \A i \in CallIds :
        LET c == pathCalls[i]
            dic == FileDIC(files)
            names == ChainNames(dic, c.file_id)
        IN (/\ c.file_id \in FileIds(files)
            /\ ~c.sanitize_pipes
            /\ Rooted(dic, c.file_id, Len(files))
            /\ Len(names) > 1
            /\ IsAuthName(names[1])
            /\ c.root_dir = names[1])
              => /\ c.farm = JoinSlash(Tail(names))
                 /\ ~StartsWith(c.farm, names[1])

(***************************************************************************)
(* Properties of the path walks: a parent that is no key of the index      *)
(***************************************************************************)
\* C14: a walk that reaches a parentID that is no key of the index stops
\* there and returns; no routine raises.
C14_DanglingParentStopsWalk == rp.pc # "raised"

(***************************************************************************)
(* Properties of the transfer runs: dry runs, files already in place,      *)
(* missing blobs and errors                                                *)
(***************************************************************************)
\* A step of a transfer run: from its start to the end of its pool.
RunStep == mode \in {"standard", "resume"} \/ mode' \in {"standard", "resume"}

\* C15: no step of a dry run changes the destination (no file or directory
\* is created, no file's content or mtime changes) or the table
\* copied_files.
C15_DryRunChangesNothing ==
    [][(args.dry_run /\ RunStep) =>
          /\ dest' = dest
          /\ destDirs' = destDirs
          /\ copied_files' = copied_files]_vars

\* C16: a record whose destination path was a regular file when the run
\* began is not copied, the file keeps its content, and when the run ends a
\* record found at the destination has its row in copied_files.
C16_ExistingFileKeptAndCompleted ==
    mode \in {"standard", "resume"} =>
        \A id \in FileIds(files) :
            LET q == ReconstructPath(files, id, args.sanitize_pipes)
            IN q \in DOMAIN h_destStart =>
                  /\ Event(id, "copied") \notin h_events
                  /\ dest[q].bytes = h_destStart[q].bytes
                  /\ (RunFinished /\ Event(id, "already_at_destination") \in h_events)
                        => Str(id) \in CompletedIds

\* The file records whose blob is in neither layout of the source store.
BlobMissing(rows, s) ==
    {rows[i].id : i \in {j \in 1..Len(rows) :
        IsFileRow(rows[j]) /\ ~SrcExists(s, resolve_src_path(s, rows[j].contentID))}}

\* C17: when a run that is no dry run ends, a file record whose blob is in
\* neither layout has not been copied, no destination file holds its blob,
\* and skipped_files has exactly one row under its contentID, with reason
\* source_missing.
C17_MissingBlobRecordedOnce ==
    (RunFinished /\ ~args.dry_run) =>
        \A id \in BlobMissing(files, src) :
            LET cid == RowOf(files, id).contentID
            IN /\ Event(id, "copied") \notin h_events
               /\ \A q \in DOMAIN dest : dest[q].bytes # cid
               /\ {r \in skipped_files : r.filename = cid} =
                     {[filename |-> cid, reason |-> "source_missing"]}

\* The exception handler of copy_file or copy_worker runs for worker w.
ExceptStep(w) ==
    /\ workers[w].pc \in {"cf_except", "cw_except"}
    /\ workers'[w].pc # workers[w].pc

\* C18: when the exception handler of a record's copy step has run,
\* skipped_files has a row under the record's contentID with reason
\* 'copy_error: ' followed by the exception's type name, the handler has
\* written no row to copied_files, and the run has written none for the
\* record.
C18_CopyErrorRecorded ==
    [][\A w \in Workers :
          ExceptStep(w) =>
             /\ [filename |-> RowOf(files, workers[w].fileID).contentID,
                 reason |-> "copy_error: " \o workers[w].status] \in skipped_files'
             /\ copied_files' = copied_files
             /\ Event(workers[w].fileID, "ledger") \notin h_events']_vars

\* A run has ended in which a record's copy step failed at makedirs.
C18_Witness ==
    /\ \E r \in skipped_files : r.reason = "copy_error: FileExistsError"
    /\ mode = "idle"
    /\ runNo >= 1

\* The records whose handling raised in the path reconstruction, and those
\* whose copy step raised.
RaisedIds == {e.id : e \in {x \in h_events : x.kind = "raised"}}
CopyFailedIds ==
    {e.id : e \in {x \in h_events :
        x.kind = "copy_attempt" /\ Event(x.id, "copied") \notin h_events}}

\* C19: when a run ends every record it handled is in its statistics: a
\* source-walk run has counted every file of the source store as processed
\* (but those whose path reconstruction raised), a resume run has counted
\* every record whose handling raised as errored.
C19_ErrorsCounted ==
    RunFinished =>
        /\ mode = "standard" =>
              counters.processed + Cardinality(RaisedIds) = Cardinality(src)
        /\ mode = "resume" =>
              results.errored = Cardinality(RaisedIds \cup CopyFailedIds)

(***************************************************************************)
(* with_retry_db on its own: any function, any number of attempts          *)
(***************************************************************************)
\* The largest attempts argument; 5 is the default of the parameter.
MaxAttempts == 5

LockedWord == <<"l", "o", "c", "k", "e", "d">>
BusyWord == <<"b", "u", "s", "y">>

\* str.lower() on the letters the messages below are written in.
LowerChar(c) ==
    CASE c = "B" -> "b" [] c = "U" -> "u" [] c = "S" -> "s" [] c = "Y" -> "y"
      [] OTHER -> c
Lower(s) == [i \in 1..Len(s) |-> LowerChar(s[i])]

\* Python's None where a value or an exception object may stand.
NoneValue == [kind |-> "none", type |-> "NoneType", msg |-> <<>>]

\* What a call of fn may do: return, or raise one of these.
FnValue == [kind |-> "value", type |-> "str", msg |-> <<"o", "k">>]
ErrLocked == [kind |-> "error", type |-> "OperationalError",
              msg |-> <<"d", "b", " ">> \o LockedWord]
ErrBusy == [kind |-> "error", type |-> "OperationalError",
            msg |-> <<"d", "b", " ">> \o <<"B", "U", "S", "Y">>]
ErrNoTable == [kind |-> "error", type |-> "OperationalError",
               msg |-> <<"n", "o", " ", "t", "b", "l">>]
ErrValue == [kind |-> "error", type |-> "ValueError", msg |-> LockedWord]
FnOutcomes == {FnValue, ErrLocked, ErrBusy, ErrNoTable, ErrValue}

\* A variant of the except clause that retries every OperationalError.
IsRetried_any_operational(e) ==
    /\ e.kind = "error"
    /\ e.type = "OperationalError"

\* except sqlite3.OperationalError as e, with "locked" in msg or "busy" in
\* msg for msg = str(e).lower()
IsRetried(e) ==
    /\ e.kind = "error"
    /\ e.type = "OperationalError"
    /\ Contains(Lower(e.msg), LockedWord) \/ Contains(Lower(e.msg), BusyWord)

\* A variant of the lines after the loop that returns None whatever
\* last_err holds.
with_retry_db_after_loop_silent(last_err) ==
    [pc |-> "returned", result |-> NoneValue]

\* Lines 663-664: if last_err: raise last_err (else the function ends and
\* returns None).
with_retry_db_after_loop(last_err) ==
    IF last_err # NoneValue THEN [pc |-> "raised", result |-> last_err]
    ELSE [pc |-> "returned", result |-> NoneValue]

InitRetry ==
    /\ files = IdxTree
    /\ dest = EmptyTree
    /\ Parked
    /\ led = <<>>
    /\ rp = <<>>
    /\ pathCalls = <<>>
    /\ pool = <<>>
    /\ loc = <<>>
    /\ farm = <<>>
    /\ rg = <<>>
    /\ schema = <<>>
    /\ conns = <<>>
    /\ retry \in {[attempts |-> n, calls |-> <<>>, last_err |-> NoneValue,
                   pc |-> "loop", result |-> NoneValue] : n \in 1..MaxAttempts}

RetryVars == <<dbVars, fsVars, runVars, histVars, led, rp, pathCalls, pool, loc, farm, rg, schema, conns>>

\* One round of "for _ in range(attempts)": the call of fn and what the
\* try statement does with its outcome (lines 653-662).
RetryCall ==
    /\ retry.pc = "loop"
    /\ Len(retry.calls) < retry.attempts
    /\ \E o \in FnOutcomes :
          retry' =
             IF o.kind = "value"
             THEN [retry EXCEPT !.calls = Append(@, o), !.pc = "returned",
                                !.result = o]
             ELSE IF IsRetried(o)
             THEN [retry EXCEPT !.calls = Append(@, o), !.last_err = o]
             ELSE [retry EXCEPT !.calls = Append(@, o), !.pc = "raised",
                                !.result = o]
    /\ UNCHANGED RetryVars

\* The loop has used up its rounds (lines 663-664).
RetryEnd ==
    /\ retry.pc = "loop"
    /\ Len(retry.calls) = retry.attempts
    /\ retry' = [retry EXCEPT
                    !.pc = with_retry_db_after_loop(retry.last_err).pc,
                    !.result = with_retry_db_after_loop(retry.last_err).result]
    /\ UNCHANGED RetryVars

NextRetry == RetryCall \/ RetryEnd

SpecRetry == InitRetry /\ [][NextRetry]_vars

(***************************************************************************)
(* Properties of with_retry_db                                             *)
(***************************************************************************)
\* Every call of fn so far raised an OperationalError that names a lock.
AllLocked == \A i \in 1..Len(retry.calls) : retry.calls[i] \in {ErrLocked, ErrBusy}

\* C20: with_retry_db never calls fn more than attempts times; when fn has
\* raised a 'locked' or 'busy' OperationalError on every call and the
\* function is over, fn was called exactly attempts times and the last of
\* those errors was raised; when the function has returned, fn was called k
\* times for some k <= attempts, the k-th call succeeded and its value is
\* what was returned.
C20_RetryBounded ==
    /\ Len(retry.calls) <= retry.attempts
    /\ (retry.pc # "loop" /\ AllLocked) =>
          /\ retry.pc = "raised"
          /\ Len(retry.calls) = retry.attempts
          /\ retry.result = retry.calls[retry.attempts]
    /\ retry.pc = "returned" =>
          /\ Len(retry.calls) >= 1
          /\ retry.calls[Len(retry.calls)] = FnValue
          /\ retry.result = FnValue
          /\ \A i \in 1..(Len(retry.calls) - 1) : retry.calls[i] \in {ErrLocked, ErrBusy}

\* The default number of attempts used up on locked and busy errors, and
\* the error raised.
C20_Witness ==
    /\ retry.attempts = 5
    /\ Len(retry.calls) = 5
    /\ AllLocked
    /\ retry.calls[1] = ErrLocked
    /\ retry.calls[5] = ErrBusy
    /\ retry.pc = "raised"

\* The outcomes of fn that are errors other than a lock or busy condition.
OtherErrors == {ErrNoTable, ErrValue}

\* C21: when a call of fn raises an error that is no locked/busy
\* OperationalError, with_retry_db raises that very error and fn is not
\* called again: the failing call is the last one, and when it is the first
\* call fn was called exactly once.
C21_OtherErrorNotRetried ==
    \A i \in 1..Len(retry.calls) :
        retry.calls[i] \in OtherErrors =>
            /\ i = Len(retry.calls)
            /\ retry.pc = "raised"
            /\ retry.result = retry.calls[i]

\* The first call raised an OperationalError that names no lock, with four
\* rounds of the loop left, and the function is over.
C21_Witness ==
    /\ retry.attempts = 5
    /\ retry.calls = <<ErrNoTable>>
    /\ retry.pc = "raised"
    /\ retry.result = ErrNoTable

(***************************************************************************)
(* The worker threads, step by step: _db_lock, io_semaphore and the file   *)
(* copies.  A task is the sequence of the operations one call of copy_file *)
(* or copy_worker makes on the lock, the semaphore, the ledger and the     *)
(* disk; what the operations write is left to the transfer runs above.     *)
(***************************************************************************)
MaxThreads == 3
MaxTasks == 3

\* copy_file (run_standard_copy): the record is copied and its mtime set
\* (the UPDATE of lines 570-578 runs on a connection of its own, outside
\* _db_lock); it is copied with no mtime to set; the copy raises; the file
\* is not in the database.  copy2 runs under no semaphore: disk_semaphore
\* is never passed and never used.
StandardTasks ==
    {<<"copy", "write", "db_acquire", "write", "db_release">>,
     <<"copy", "db_acquire", "write", "db_release">>,
     <<"copy_raises", "db_acquire", "write", "db_release">>,
     <<"db_acquire", "write", "db_release">>}

\* copy_worker (run_resume_copy): the blob is missing; the file is at the
\* destination and its mtime is refreshed (UPDATE under _db_lock, then
\* insert_copied_file); the record is copied under io_semaphore; the copy
\* raises.
ResumeTasks ==
    {<<"db_acquire", "write", "db_release">>,
     <<"db_acquire", "write", "db_release", "db_acquire", "write", "db_release">>,
     <<"sem_acquire", "copy", "sem_release", "db_acquire", "write", "db_release">>,
     <<"sem_acquire", "copy_raises", "sem_release", "db_acquire", "write",
       "db_release">>}

TasksOf(m) == IF m = "standard" THEN StandardTasks ELSE ResumeTasks

IdleThread == [prog |-> <<>>, inCopy |-> FALSE, inWrite |-> FALSE]

\* io_semaphore = threading.Semaphore(max(2, thread_count)), in resume mode
\* only; --io-max-concurrency is parsed and read nowhere.
SemaphoreSize(m, thread_count) ==
    IF m = "resume" THEN Max({2, thread_count}) ELSE 0

InitPool ==
    /\ files = IdxTree
    /\ dest = EmptyTree
    /\ Parked
    /\ led = <<>>
    /\ rp = <<>>
    /\ pathCalls = <<>>
    /\ retry = <<>>
    /\ loc = <<>>
    /\ farm = <<>>
    /\ rg = <<>>
    /\ schema = <<>>
    /\ conns = <<>>
    /\ \E m \in {"standard", "resume"}, n \in 1..MaxThreads, k \in 0..2 :
          pool = [mode |-> m, thread_count |-> n, io_max_concurrency |-> k,
                  left |-> MaxTasks, db_lock |-> 0,
                  sem |-> SemaphoreSize(m, n),
                  th |-> [t \in 1..n |-> IdleThread]]

PoolVars == <<dbVars, fsVars, runVars, histVars, led, rp, pathCalls, retry, loc, farm, rg, schema, conns>>

Threads == DOMAIN pool.th
NextOp(t) == IF pool.th[t].prog = <<>> THEN "none" ELSE Head(pool.th[t].prog)
Advance(t) == [pool.th EXCEPT ![t].prog = Tail(@)]

\* The executor hands the next task to an idle thread.
TakeTask(t) ==
    /\ pool.th[t].prog = <<>>
    /\ pool.left > 0
    /\ \E task \in TasksOf(pool.mode) :
          pool' = [pool EXCEPT !.left = @ - 1, !.th[t].prog = task]
    /\ UNCHANGED PoolVars

\* with _db_lock: (insert_copied_file, insert_skipped_file, copy_worker
\* line 1243)
DbAcquire(t) ==
    /\ NextOp(t) = "db_acquire"
    /\ pool.db_lock = 0
    /\ pool' = [pool EXCEPT !.db_lock = t, !.th = Advance(t)]
    /\ UNCHANGED PoolVars

DbRelease(t) ==
    /\ NextOp(t) = "db_release"
    /\ pool' = [pool EXCEPT !.db_lock = 0, !.th = Advance(t)]
    /\ UNCHANGED PoolVars

\* execute(INSERT or UPDATE) ... commit(): the statement begins
WriteBegin(t) ==
    /\ NextOp(t) = "write"
    /\ ~pool.th[t].inWrite
    /\ pool' = [pool EXCEPT !.th[t].inWrite = TRUE]
    /\ UNCHANGED PoolVars

\* ... and is committed
WriteEnd(t) ==
    /\ NextOp(t) = "write"
    /\ pool.th[t].inWrite
    /\ pool' = [pool EXCEPT !.th = [Advance(t) EXCEPT ![t].inWrite = FALSE]]
    /\ UNCHANGED PoolVars

\* with io_semaphore:
SemAcquire(t) ==
    /\ NextOp(t) = "sem_acquire"
    /\ pool.sem > 0
    /\ pool' = [pool EXCEPT !.sem = @ - 1, !.th = Advance(t)]
    /\ UNCHANGED PoolVars

SemRelease(t) ==
    /\ NextOp(t) = "sem_release"
    /\ pool' = [pool EXCEPT !.sem = @ + 1, !.th = Advance(t)]
    /\ UNCHANGED PoolVars

\* shutil.copy2 (or the buffered loop) opens the two files
CopyBegin(t) ==
    /\ NextOp(t) \in {"copy", "copy_raises"}
    /\ ~pool.th[t].inCopy
    /\ pool' = [pool EXCEPT !.th[t].inCopy = TRUE]
    /\ UNCHANGED PoolVars

\* ... and returns or raises
CopyEnd(t) ==
    /\ NextOp(t) \in {"copy", "copy_raises"}
    /\ pool.th[t].inCopy
    /\ pool' = [pool EXCEPT !.th = [Advance(t) EXCEPT ![t].inCopy = FALSE]]
    /\ UNCHANGED PoolVars

NextPool ==
    \/ \E t \in Threads : TakeTask(t)
    \/ \E t \in Threads : DbAcquire(t)
    \/ \E t \in Threads : DbRelease(t)
    \/ \E t \in Threads : WriteBegin(t)
    \/ \E t \in Threads : WriteEnd(t)
    \/ \E t \in Threads : SemAcquire(t)
    \/ \E t \in Threads : SemRelease(t)
    \/ \E t \in Threads : CopyBegin(t)
    \/ \E t \in Threads : CopyEnd(t)

SpecPool == InitPool /\ [][NextPool]_vars

(***************************************************************************)
(* Properties of the worker threads                                        *)
(***************************************************************************)
InWrite == {t \in Threads : pool.th[t].inWrite}
InCopy == {t \in Threads : pool.th[t].inCopy}

\* C22: a thread that is inside a write to the ledger tables holds
\* _db_lock, so at most one thread is inside a ledger write at any time.
C22_LedgerWritesUnderLock ==
    /\ \A t \in InWrite : pool.db_lock = t
    /\ Cardinality(InWrite) <= 1

\* C25: with --io-max-concurrency K > 0, at most K file copies are in
\* flight at any time, whatever the number of threads.
C25_CopiesBoundedByK ==
    pool.io_max_concurrency > 0 => Cardinality(InCopy) <= pool.io_max_concurrency

(***************************************************************************)
(* Runs that stop early: --limit, Ctrl+C, and the processes that only      *)
(* prepare the tables                                                      *)
(***************************************************************************)
MaxLimit == 1

\* A variant of init_copy_tracking_tables that makes the table anew.
init_copy_tracking_tables_recreate(tbl) == {}

\* init_copy_tracking_tables: CREATE TABLE IF NOT EXISTS (and ALTER TABLE
\* only when the column mtime_refreshed is missing) on a table that is
\* there: the table and its rows stay as they are.
init_copy_tracking_tables(tbl) == tbl

\* The command lines of the runs below.
StopArgs ==
    {[DefaultArgs EXCEPT !.limit = n, !.no_regen_log = b] :
        n \in 0..MaxLimit, b \in BOOLEAN}

InitStops ==
    /\ files = IdxDup
    /\ copied_files = {}
    /\ skipped_files = {}
    /\ src \in SrcStores(files)
    /\ dest \in DestStarts(files)
    /\ destDirs = DirsOf(dest)
    /\ log = {}
    /\ args \in StopArgs
    /\ NoRun
    /\ NoHistory
    /\ NoHarness

\* --preflight: __main__ lines 899-920.  The tables are prepared twice, the
\* report is printed and the process exits.
Preflight ==
    /\ mode = "idle"
    /\ copied_files' = init_copy_tracking_tables(init_copy_tracking_tables(copied_files))
    /\ skipped_files' = init_copy_tracking_tables(init_copy_tracking_tables(skipped_files))
    /\ UNCHANGED <<files, fsVars, runVars, histVars, led, rp, pathCalls, retry, pool, loc, farm, rg, schema, conns>>

\* run_standard_copy, lines 1078-1081: the submitting loop finds
\* processed_files_counter at the limit and returns.  The files it has not
\* submitted are dropped; those already queued (any of the pending ones)
\* are still run, as the executor is shut down with wait=True.
LimitStop ==
    /\ mode = "standard"
    /\ args.limit > 0
    /\ counters.processed >= args.limit
    /\ pending # {}
    /\ \E queued \in SUBSET pending :
          /\ queued # pending
          /\ pending' = queued
    /\ UNCHANGED <<dbVars, fsVars, args, mode, copied_log_set, already_copied_set,
                   skipped_set, workers, counters, results, histVars, led, rp,
                   pathCalls, retry, pool, loc, farm, rg, schema, conns>>

\* KeyboardInterrupt (__main__, lines 1333-1335 and the finally block): the
\* run is over with exit code 130; work not yet done is not done, and what
\* a thread was in the middle of stays as far as it got.
Interrupt ==
    /\ mode \in {"standard", "resume"}
    /\ mode' = "idle"
    /\ pending' = {}
    /\ workers' = [w \in Workers |-> IdleWorker]
    /\ runNo' = runNo + 1
    /\ h_lastMode' = "interrupted"
    /\ UNCHANGED <<dbVars, fsVars, args, copied_log_set, already_copied_set,
                   skipped_set, counters, results, h_destStart, h_copies,
                   h_failedStart, h_events, led, rp, pathCalls, retry, pool, loc, farm, rg, schema, conns>>

NextStops ==
    \/ Next
    \/ Preflight
    \/ LimitStop
    \/ Interrupt

SpecStops == InitStops /\ [][NextStops]_vars

(***************************************************************************)
(* Properties of the runs that stop early                                  *)
(***************************************************************************)
\* C23: no step removes a row of copied_files or changes its file_id or
\* filename: not a transfer, a regeneration, the preparation of the tables,
\* an interrupt or a stop at the limit.
C23_CompletedNeverRemoved ==
    [][\A r \in copied_files :
          \E r2 \in copied_files' :
              r2.file_id = r.file_id /\ r2.filename = r.filename]_vars

\* A run was interrupted after it had written a record's row and before
\* every record had one; the row is in the table.
C23_Witness ==
    /\ mode = "idle"
    /\ h_lastMode = "interrupted"
    /\ \E id \in FileIds(files) :
          /\ Event(id, "ledger") \in h_events
          /\ Str(id) \in CompletedIds
    /\ \E id \in FileIds(files) : Str(id) \notin CompletedIds

\* The files of the current run that were handed to a worker, counted from
\* below: those the counters have, and those the threads hold.
HandedOver ==
    Cardinality({w \in Workers : workers[w].pc # "idle"})
        + (IF mode = "standard" THEN counters.processed
           ELSE results.copied + results.skipped_already + results.skipped_problem
                + results.errored + results.dry_run)

\* C24: with --limit N > 0 a run hands at most N files to its workers.
C24_LimitBoundsHandedOver ==
    (args.limit > 0 /\ mode \in {"standard", "resume"}) => HandedOver <= args.limit

(***************************************************************************)
(* The two blob locators called on one source store                        *)
(***************************************************************************)
MaxLocCalls == 1

\* create_symlink_farm.get_source_file_path(content_id, source_dir): the
\* subdirectory named by the lower-cased first character, then the flat
\* path; None when neither exists.
get_source_file_path(s, content_id) ==
    IF ~Truthy(content_id) THEN None
    ELSE LET file_path == PathJoin(<<LowerChar(content_id[1])>>, content_id)
             flat_path == content_id
         IN IF SrcExists(s, file_path) THEN file_path
            ELSE IF SrcExists(s, flat_path) THEN flat_path
            ELSE None

\* The contentIDs asked for: two letters, an upper-case first letter, one
\* letter; and no contentID.
UpperCid == <<"B", "q">>
OneCharCid == <<"k">>
LocCids == {C1id, UpperCid, OneCharCid}
LocArgs == LocCids \cup {None, <<>>}

\* The source stores: any of the blobs at its flat path, in the
\* subdirectory of its first character, or in that of the lower-cased one.
LocPaths ==
    UNION {{c, Sharded(c), PathJoin(<<LowerChar(c[1])>>, c)} : c \in LocCids}

InitResolve ==
    /\ files = IdxTree
    /\ copied_files = {}
    /\ skipped_files = {}
    /\ src \in SUBSET LocPaths
    /\ dest = EmptyTree
    /\ destDirs = {}
    /\ log = {}
    /\ args = DefaultArgs
    /\ NoRun
    /\ NoHistory
    /\ NoHarness

\* One contentID handed to both locators.
CallLocators ==
    /\ Len(loc) < MaxLocCalls
    /\ \E cid \in LocArgs :
          loc' = Append(loc, [cid |-> cid,
                              resolve |-> resolve_src_path(src, cid),
                              farm |-> get_source_file_path(src, cid)])
    /\ UNCHANGED <<dbVars, fsVars, runVars, histVars, led, rp, pathCalls, retry,
                   pool, farm, rg, schema, conns>>

NextResolve == CallLocators

SpecResolve == InitResolve /\ [][NextResolve]_vars

(***************************************************************************)
(* Properties of the blob locators                                         *)
(***************************************************************************)
LocCalls == {loc[i] : i \in 1..Len(loc)}

\* C26: for a non-empty contentID each locator returns the path in the
\* subdirectory named by the first character, unchanged, when that exists;
\* else the flat path when that exists; else the subdirectory path.
C26_ShardedFirst ==
    \A c \in LocCalls :
        c.cid \in LocCids =>
            LET sharded == PathJoin(<<c.cid[1]>>, c.cid)
                expected == IF SrcExists(src, sharded) THEN sharded
                            ELSE IF SrcExists(src, c.cid) THEN c.cid
                            ELSE sharded
            IN c.resolve = expected /\ c.farm = expected

\* C27: resolve_src_path returns base_dir for an empty or absent contentID;
\* else the flat path when it exists (also when the subdirectory path
\* exists too), the subdirectory path when only that exists, and the flat
\* path when neither exists.
C27_FlatFirst ==
    \A c \in LocCalls :
        LET flat == c.cid
            sharded == PathJoin(<<c.cid[1]>>, c.cid)
        IN /\ c.cid \in {None, <<>>} => c.resolve = <<>>
           /\ c.cid \in LocCids =>
                /\ SrcExists(src, flat) => c.resolve = flat
                /\ (~SrcExists(src, flat) /\ SrcExists(src, sharded)) => c.resolve = sharded
                /\ (~SrcExists(src, flat) /\ ~SrcExists(src, sharded)) => c.resolve = flat

\* The blob is at both paths and the flat one was returned.
C27_Witness ==
    /\ {C1id, Sharded(C1id)} \subseteq src
    /\ \E c \in LocCalls : c.cid = C1id /\ c.resolve = C1id

(***************************************************************************)
(* create_symlink_farm, one record of its loop at a time                   *)
(***************************************************************************)
MaxFarmRuns == 2

\* What is at a path of the farm: a regular file, or a symlink and its target.
FarmFile == [kind |-> "file", target |-> None]
FarmLink(target) == [kind |-> "link", target |-> target]

ZeroStats == [created |-> 0, skipped_no_content |-> 0, skipped_no_source |-> 0,
              errors |-> 0]

\* A variant of the try block below that removes whatever is at farm_path.
farm_place_overwrite(tree, dirs, farm_path, source_path) ==
    IF \E a \in Ancestors(farm_path) : a \in DOMAIN tree
    THEN [tree |-> tree, dirs |-> dirs, outcome |-> "oserror"]
    ELSE [tree |-> (farm_path :> FarmLink(source_path)) @@ tree,
          dirs |-> dirs \cup Ancestors(farm_path), outcome |-> "linked"]

\* Lines 396-418: os.makedirs of the parent (OSError when a file or a
\* symlink to a blob is in the way), os.remove of a symlink at farm_path,
\* "continue" when anything else exists there, os.symlink.
farm_place(tree, dirs, farm_path, source_path) ==
    IF \E a \in Ancestors(farm_path) : a \in DOMAIN tree
    THEN [tree |-> tree, dirs |-> dirs, outcome |-> "oserror"]
    ELSE LET made == dirs \cup Ancestors(farm_path)
             islink == farm_path \in DOMAIN tree /\ tree[farm_path].kind = "link"
             exists == farm_path \in DOMAIN tree \/ farm_path \in made
         IN IF ~islink /\ exists
            THEN [tree |-> tree, dirs |-> made, outcome |-> "real_file"]
            ELSE [tree |-> (farm_path :> FarmLink(source_path)) @@ tree,
                  dirs |-> made, outcome |-> "linked"]

\* The farms a run may start on: empty; a regular file at the folder name
\* "d"; a regular file, or a symlink to something else, at the first file
\* record's farm path; that regular file beside such a symlink at another
\* record's farm path.
StaleTarget == <<"o", "l", "d">>
FarmStarts(rows) ==
    LET p == ReconstructPath(rows, FirstFileRow(rows).id, FALSE)
        others == {ReconstructPath(rows, id, FALSE) : id \in FileIds(rows)} \ {p, None}
    IN {[q \in {} |-> FarmFile]} \cup
       {[q \in {<<"d">>} |-> FarmFile]} \cup
       (IF p = None THEN {}
        ELSE {[q \in {p} |-> FarmFile], [q \in {p} |-> FarmLink(StaleTarget)]} \cup
             {[q \in {p, p2} |-> IF q = p THEN FarmFile ELSE FarmLink(StaleTarget)] :
                 p2 \in others})

FarmIndexes == {IdxTree, IdxDup, IdxShared, IdxPipe, IdxCycle}

InitFarm ==
    /\ files \in FarmIndexes
    /\ copied_files = {}
    /\ skipped_files = {}
    /\ src \in SrcStores(files)
    /\ dest = EmptyTree
    /\ destDirs = {}
    /\ log = {}
    /\ args = DefaultArgs
    /\ NoRun
    /\ NoHistory
    /\ led = <<>>
    /\ rp = <<>>
    /\ pathCalls = <<>>
    /\ retry = <<>>
    /\ pool = <<>>
    /\ loc = <<>>
    /\ rg = <<>>
    /\ schema = <<>>
    /\ conns = <<>>
    /\ \E t \in FarmStarts(files), dr \in BOOLEAN,
          sp \in {s \in BOOLEAN : s => HasPipe(files)} :
          farm = [pc |-> "idle", i |-> 0, tree |-> t, dirs |-> DirsOf(t),
                  start |-> t, sanitize_pipes |-> sp, dry_run |-> dr,
                  stats |-> ZeroStats, outcomes |-> <<>>, runs |-> 0,
                  after1 |-> t]

FarmVars == <<dbVars, fsVars, runVars, histVars, led, rp, pathCalls, retry, pool,
              loc, rg, schema, conns>>

\* create_symlink_farm up to its loop (lines 327-353).
FarmStart ==
    /\ farm.pc = "idle"
    /\ farm.runs < MaxFarmRuns
    /\ farm' = [farm EXCEPT !.pc = "loop", !.i = 1, !.stats = ZeroStats,
                            !.outcomes = <<>>]
    /\ UNCHANGED FarmVars

\* One round of "for i, (file_id, meta) in enumerate(file_dic.items())"
\* (lines 354-418).
FarmRecord ==
    LET ord == DictOrder(files)
        file_id == ord[farm.i]
        content_id == FileDIC(files)[file_id].contentID
        source_path == get_source_file_path(src, content_id)
        rel_path == ReconstructPath(files, file_id, farm.sanitize_pipes)
        placed == farm_place(farm.tree, farm.dirs, rel_path, source_path)
        Done(outcome, stat) ==
            [farm EXCEPT !.i = @ + 1,
                         !.stats[stat] = @ + 1,
                         !.outcomes = Append(@, [id |-> file_id, path |-> rel_path,
                                                 source |-> source_path,
                                                 outcome |-> outcome])]
    IN
    /\ farm.pc = "loop"
    /\ farm.i <= Len(ord)
    /\ farm' =
         IF ~Truthy(content_id) THEN Done("no_content", "skipped_no_content")
         ELSE IF source_path = None THEN Done("no_source", "skipped_no_source")
         ELSE IF rel_path = None THEN Done("no_path", "errors")
         ELSE IF farm.dry_run THEN Done("dry_run", "created")
         ELSE IF placed.outcome = "oserror"
         THEN Done("oserror", "errors")
         ELSE IF placed.outcome = "real_file"
         THEN [farm EXCEPT !.i = @ + 1, !.dirs = placed.dirs,
                           !.outcomes = Append(@, [id |-> file_id, path |-> rel_path,
                                                   source |-> source_path,
                                                   outcome |-> "real_file"])]
         ELSE [Done("linked", "created") EXCEPT !.tree = placed.tree,
                                                !.dirs = placed.dirs]
    /\ UNCHANGED FarmVars

\* The loop is over: return created, skipped_no_content, skipped_no_source,
\* errors (line 420).
FarmReturn ==
    /\ farm.pc = "loop"
    /\ farm.i > Len(DictOrder(files))
    /\ farm' = [farm EXCEPT !.pc = "idle", !.runs = @ + 1,
                            !.after1 = IF farm.runs = 0 THEN farm.tree ELSE @]
    /\ UNCHANGED FarmVars

NextFarm == FarmStart \/ FarmRecord \/ FarmReturn

SpecFarm == InitFarm /\ [][NextFarm]_vars

(***************************************************************************)
(* Properties of create_symlink_farm                                       *)
(***************************************************************************)
FarmOutcomes == {farm.outcomes[k] : k \in 1..Len(farm.outcomes)}
CountOutcomes(kinds) ==
    Cardinality({k \in 1..Len(farm.outcomes) : farm.outcomes[k].outcome \in kinds})

\* C28: a regular file that was in the farm before the runs is there as it
\* was; a record that found a regular file (or a directory) at its farm
\* path is not counted as created; when a run that is no dry run is over,
\* the farm path of every record that was linked holds a symlink to the
\* blob resolved for the last record linked there; and the farm after a
\* second or later run is the farm after the first.
C28_FarmKeepsFilesAndIsIdempotent ==
    /\ \A q \in DOMAIN farm.start :
          farm.start[q].kind = "file" =>
              q \in DOMAIN farm.tree /\ farm.tree[q] = farm.start[q]
    /\ farm.stats.created = CountOutcomes({"linked", "dry_run"})
    /\ \A k \in 1..Len(farm.outcomes) :
          LET o == farm.outcomes[k] IN
          (o.outcome = "linked" /\
           \A j \in (k + 1)..Len(farm.outcomes) :
               farm.outcomes[j].outcome = "linked" => farm.outcomes[j].path # o.path)
              => /\ o.path \in DOMAIN farm.tree
                 /\ farm.tree[o.path] = FarmLink(o.source)
    /\ (farm.pc = "idle" /\ farm.runs >= 2) => farm.tree = farm.after1

\* Two runs are over on a farm that began with a regular file at one
\* record's path and a symlink to something else at another's: the first
\* record was passed over, the second was linked again in the second run
\* and its path holds a symlink to its blob.
C28_Witness ==
    /\ farm.pc = "idle"
    /\ farm.runs = 2
    /\ \E o \in FarmOutcomes :
          /\ o.outcome = "real_file"
          /\ o.path \in DOMAIN farm.start
          /\ farm.start[o.path] = FarmFile
    /\ \E q \in DOMAIN farm.start :
          /\ farm.start[q] = FarmLink(StaleTarget)
          /\ farm.tree[q].kind = "link"
          /\ farm.tree[q].target # StaleTarget
          /\ \E o \in FarmOutcomes : o.path = q /\ o.outcome = "linked"

(***************************************************************************)
(* Properties of the transfer runs: the resume log                         *)
(***************************************************************************)
\* The destination path the running mode's worker computes for a record.
DestPathOf(id) ==
    LET fullpath == idToPath2(FileDIC(files), id).path
    IN IF mode = "standard" THEN copy_file_newpath(files, args, fullpath)
       ELSE copy_worker_rel_path(files, args, fullpath)

\* C29: when a run has drained its pool, the destination path of every
\* record whose row the run's workers wrote to copied_files is a line of
\* the resume log, in source-walk mode and in resume mode.
C29_CompletedIsLogged ==
    RunFinished =>
        \A id \in FileIds(files) :
            Event(id, "ledger") \in h_events => DestPathOf(id) \in log

(***************************************************************************)
(* The regeneration of the resume log, one destination file at a time      *)
(***************************************************************************)
\* A line of an earlier log that names no file of the destination.
StaleLine == <<"o", "l", "d", "l", "o", "g">>

LogRoutines == {"create_log_file_from_dir", "regenerate_copied_files_from_dest"}

\* A variant of the write below that puts the line in the log file itself.
regen_write_in_place(st, file_path) == [st EXCEPT !.log = @ \cup {file_path}]

\* f.write(file_path + '\n') with f = open(tmp_log, 'w'): st is the pair of
\* files [log, tmp].
regen_write(st, file_path) == [st EXCEPT !.tmp = @ \cup {file_path}]

\* The logs a regeneration may find: none or an empty one, a stale line,
\* a stale line beside the lines of the files now at the destination.
OldLogs(d) == {{}, {StaleLine}, {StaleLine} \cup DOMAIN d}

InitRegenSteps ==
    /\ files = IdxTree
    /\ copied_files \in {{}, insert_copied_file({}, FirstFileRow(files).id,
                                                FirstFileRow(files).contentID)}
    /\ skipped_files = {}
    /\ src = {}
    /\ dest \in RegenDests(files)
    /\ destDirs = DirsOf(dest)
    /\ log \in OldLogs(dest)
    /\ args = DefaultArgs
    /\ NoRun
    /\ NoHistory
    /\ led = <<>>
    /\ rp = <<>>
    /\ pathCalls = <<>>
    /\ retry = <<>>
    /\ pool = <<>>
    /\ loc = <<>>
    /\ farm = <<>>
    /\ schema = <<>>
    /\ conns = <<>>
    /\ \E r \in LogRoutines, left \in {{}, {StaleLine}} :
          rg = [routine |-> r, pc |-> "open", todo |-> {}, tmp |-> left,
                tmp_exists |-> left # {}, old |-> log, total_files |-> 0,
                matched_files |-> 0, unmatched_files |-> 0]

RgVars == <<files, skipped_files, src, dest, destDirs, runVars, histVars, led, rp,
            pathCalls, retry, pool, loc, farm, schema, conns>>

\* tmp_log = log_file + ".tmp"; open(tmp_log, 'w'); os.walk starts
\* (lines 620-621; lines 241 and 308-309).
RgOpen ==
    /\ rg.pc = "open"
    /\ rg' = [rg EXCEPT !.pc = "scan", !.todo = DOMAIN dest, !.tmp = {},
                        !.tmp_exists = TRUE]
    /\ UNCHANGED <<copied_files, log>>
    /\ UNCHANGED RgVars

\* The counters of lines 325-339: a matched file counts when the INSERT OR
\* IGNORE entered a row (c.rowcount == 1), a file with no record counts as
\* unmatched, every file counts in total_files.
regen_count(c, matched, rowcount) ==
    [c EXCEPT !.matched_files = IF matched /\ rowcount = 1 THEN @ + 1 ELSE @,
              !.unmatched_files = IF matched THEN @ ELSE @ + 1,
              !.total_files = @ + 1]

\* One file of the walk: its line is written (lines 622-625); in
\* regenerate_copied_files_from_dest the file is matched, its record
\* entered in copied_files and the file counted too (lines 310-342).
RgWrite ==
    /\ rg.pc = "scan"
    /\ \E file_path \in rg.todo :
          LET st == regen_write([log |-> log, tmp |-> rg.tmp], file_path)
              file_id == RegenMatch(files, file_path)
              rowcount == IF Str(file_id) \in CompletedIds THEN 0 ELSE 1
              step == [rg EXCEPT !.tmp = st.tmp, !.todo = @ \ {file_path}]
          IN /\ log' = st.log
             /\ IF rg.routine = "regenerate_copied_files_from_dest"
                THEN /\ rg' = regen_count(step, Truthy(file_id), rowcount)
                     /\ copied_files' =
                           IF Truthy(file_id)
                           THEN insert_copied_file(copied_files, file_id,
                                                   RegenRel(file_path))
                           ELSE copied_files
                ELSE /\ rg' = step
                     /\ UNCHANGED copied_files
    /\ UNCHANGED RgVars

\* os.replace(tmp_log, log_file) (line 626; line 349)
RgReplace ==
    /\ rg.pc = "scan"
    /\ rg.todo = {}
    /\ log' = rg.tmp
    /\ rg' = [rg EXCEPT !.pc = "done", !.tmp = {}, !.tmp_exists = FALSE]
    /\ UNCHANGED copied_files
    /\ UNCHANGED RgVars

\* The routine is left by an exception at any point before os.replace: a
\* KeyboardInterrupt, an OSError of open, write or the walk.
RgFail ==
    /\ rg.pc \in {"open", "scan"}
    /\ rg' = [rg EXCEPT !.pc = "failed"]
    /\ UNCHANGED <<copied_files, log>>
    /\ UNCHANGED RgVars

NextRegenSteps == RgOpen \/ RgWrite \/ RgReplace \/ RgFail

SpecRegenSteps == InitRegenSteps /\ [][NextRegenSteps]_vars

(***************************************************************************)
(* Properties of the regeneration of the resume log                        *)
(***************************************************************************)
\* C30: at every point of a regeneration the log file holds the lines it
\* had before or one line per file of the destination; the old lines when
\* the regeneration failed, the new ones when it is done; and the lines
\* are written to the temp file.
C30_LogReplacedAtomically ==
    /\ log = rg.old \/ log = RegenLog(dest)
    /\ rg.pc \in {"open", "scan", "failed"} => log = rg.old
    /\ rg.pc = "done" => log = RegenLog(dest)
    /\ rg.pc = "scan" => rg.tmp \cup rg.todo = RegenLog(dest)

\* A regeneration failed with some lines, not all, in the temp file, on a
\* log that had a stale line: the log still has its old lines.
C30_Witness ==
    /\ rg.pc = "failed"
    /\ rg.tmp # {}
    /\ rg.tmp # RegenLog(dest)
    /\ StaleLine \in log
    /\ log = rg.old
    /\ log # RegenLog(dest)

(***************************************************************************)
(* init_copy_tracking_tables on a database file, tables with their columns *)
(***************************************************************************)
MaxInitCalls == 3

\* A table that is not in the database file.
NoTable == [cols |-> {}, rows |-> {}, present |-> FALSE]

CopiedCols == {"file_id", "filename", "copied_at", "mtime_refreshed"}
SkippedCols == {"filename", "reason", "timestamp"}

\* CREATE TABLE IF NOT EXISTS name (cols)
create_table_if_not_exists(t, cols) ==
    IF t.present THEN t ELSE [cols |-> cols, rows |-> {}, present |-> TRUE]

\* ALTER TABLE t ADD COLUMN col INTEGER DEFAULT 0: the rows there read 0.
add_column(t, col) ==
    [t EXCEPT !.cols = @ \cup {col},
              !.rows = {[c \in DOMAIN r \cup {col} |->
                            IF c \in DOMAIN r THEN r[c] ELSE 0] : r \in @}]

\* A variant of init_copy_tracking_tables without the ALTER TABLE.
init_copy_tracking_tables_db_no_alter(db) ==
    [copied_files |-> create_table_if_not_exists(db.copied_files, CopiedCols),
     skipped_files |-> create_table_if_not_exists(db.skipped_files, SkippedCols)]

\* init_copy_tracking_tables (lines 182-207) on the tables of db_path:
\* create copied_files if absent, add mtime_refreshed when PRAGMA
\* table_info does not list it, create skipped_files if absent.
init_copy_tracking_tables_db(db) ==
    LET c == create_table_if_not_exists(db.copied_files, CopiedCols)
        cols == c.cols
        c2 == IF "mtime_refreshed" \notin cols THEN add_column(c, "mtime_refreshed") ELSE c
    IN [copied_files |-> c2,
        skipped_files |-> create_table_if_not_exists(db.skipped_files, SkippedCols)]

\* Rows of copied_files over the given columns, for the ids "1" and "2".
CopiedRowsOver(cols, flags) ==
    {[c \in cols |-> IF c = "file_id" THEN id
                     ELSE IF c = "filename" THEN <<"f">> \o id
                     ELSE IF c = "copied_at" THEN <<"t">>
                     ELSE fl] : id \in {<<"1">>, <<"2">>}, fl \in flags}

OneRowPerId(rows) == \A r1, r2 \in rows : r1.file_id = r2.file_id => r1 = r2

CopiedTables ==
    {NoTable}
    \cup {[cols |-> CopiedCols \ {"mtime_refreshed"}, rows |-> rs, present |-> TRUE] :
            rs \in SUBSET CopiedRowsOver(CopiedCols \ {"mtime_refreshed"}, {0})}
    \cup {[cols |-> CopiedCols, rows |-> rs, present |-> TRUE] :
            rs \in {x \in SUBSET CopiedRowsOver(CopiedCols, {0, 1}) : OneRowPerId(x)}}

SkippedTables ==
    {NoTable}
    \cup {[cols |-> SkippedCols, rows |-> rs, present |-> TRUE] :
            rs \in SUBSET {[filename |-> <<"p">>, reason |-> <<"e">>, timestamp |-> <<"t">>]}}

InitTables ==
    /\ files = IdxTree
    /\ dest = EmptyTree
    /\ Parked
    /\ led = <<>>
    /\ rp = <<>>
    /\ pathCalls = <<>>
    /\ retry = <<>>
    /\ pool = <<>>
    /\ loc = <<>>
    /\ farm = <<>>
    /\ rg = <<>>
    /\ conns = <<>>
    /\ \E c \in CopiedTables, s \in SkippedTables :
          LET db == [copied_files |-> c, skipped_files |-> s]
          IN schema = [db |-> db, before |-> db, calls |-> 0, inserts |-> 0,
                       last |-> "none"]

SchemaVars == <<dbVars, fsVars, runVars, histVars, led, rp, pathCalls, retry, pool,
                loc, farm, rg, conns>>

\* A call of init_copy_tracking_tables(db_path); before keeps the tables
\* as the call found them.
CallInitTables ==
    /\ schema.calls < MaxInitCalls
    /\ schema' = [schema EXCEPT !.before = schema.db,
                                !.db = init_copy_tracking_tables_db(schema.db),
                                !.calls = @ + 1, !.last = "init"]
    /\ UNCHANGED SchemaVars

\* Between two calls a run enters a record: INSERT OR IGNORE INTO
\* copied_files (file_id, filename, mtime_refreshed) VALUES (?, ?, 0)
\* (lines 209-220), copied_at by its default.
InsertBetweenCalls ==
    /\ schema.calls >= 1
    /\ schema.inserts < 1
    /\ \E r \in CopiedRowsOver(CopiedCols, {0}) :
          /\ r.file_id \notin {x.file_id : x \in schema.db.copied_files.rows}
          /\ schema' = [schema EXCEPT !.db.copied_files.rows = @ \cup {r},
                                      !.inserts = @ + 1, !.last = "insert"]
    /\ UNCHANGED SchemaVars

NextTables == CallInitTables \/ InsertBetweenCalls

SpecTables == InitTables /\ [][NextTables]_vars

(***************************************************************************)
(* Properties of init_copy_tracking_tables                                 *)
(***************************************************************************)
\* The rows of a table as they read over the columns cols.
RowsOver(t, cols) == {[c \in cols |-> r[c]] : r \in t.rows}

\* C31: after any number of calls of init_copy_tracking_tables both tables
\* are there, each row that was in them is there with the values it had
\* and no row is added, and copied_files has the column mtime_refreshed,
\* 0 in the rows of a table that lacked it.
C31_InitTablesIdempotent ==
    schema.last = "init" =>
        LET old == schema.before
            new == schema.db
        IN /\ new.copied_files.present /\ new.skipped_files.present
           /\ "mtime_refreshed" \in new.copied_files.cols
           /\ \A r \in new.copied_files.rows : "mtime_refreshed" \in DOMAIN r
           /\ RowsOver(new.copied_files, old.copied_files.cols) = old.copied_files.rows
           /\ Cardinality(new.copied_files.rows) = Cardinality(old.copied_files.rows)
           /\ new.skipped_files.rows = old.skipped_files.rows
           /\ "mtime_refreshed" \notin old.copied_files.cols =>
                  \A r \in new.copied_files.rows : r.mtime_refreshed = 0
           /\ schema.calls >= 2 => new = old

\* init_copy_tracking_tables ran on a copied_files table that had two rows
\* and no column mtime_refreshed.
C31_Witness ==
    /\ schema.calls = 1
    /\ schema.before.copied_files.present
    /\ "mtime_refreshed" \notin schema.before.copied_files.cols
    /\ Cardinality(schema.before.copied_files.rows) = 2
    /\ Cardinality(schema.db.copied_files.rows) = 2
    /\ schema.db.skipped_files.rows # {}

(***************************************************************************)
(* Runs on indexes with a record whose path cannot be reconstructed        *)
(***************************************************************************)
\* A file record that has the name getRootDirs picks as the root: its path
\* is empty once the root name is taken out.
IdxRootFile ==
    << FileRow(<<"1">>, <<"a", "u", "t", "h", "|", "0">>, None, C1id),
       DirRow(<<"2">>, <<"d">>, None),
       FileRow(<<"3">>, <<"p">>, <<"2">>, K2id) >>

SkipIndexes == {IdxDangling, IdxRootFile}

InitSkips ==
    /\ files \in SkipIndexes
    /\ copied_files = {}
    /\ skipped_files = {}
    /\ src \in SrcStores(files)
    /\ dest \in DestStarts(files)
    /\ destDirs = DirsOf(dest)
    /\ log = {}
    /\ args \in ArgSets(files)
    /\ NoRun
    /\ NoHistory
    /\ NoHarness

SpecSkips == InitSkips /\ [][Next]_vars

\* The relative path the running engine computes for a record: copy_file
\* (lines 482-491) or copy_worker (lines 1214-1221).
EnginePath(id) ==
    LET res == idToPath2(FileDIC(files), id)
    IN IF res.kind # "ok" THEN res
       ELSE IF mode = "standard" THEN Ok(copy_file_newpath(files, args, res.path))
       ELSE Ok(copy_worker_rel_path(files, args, res.path))

PathFails(id) == EnginePath(id).kind = "KeyError" \/ EnginePath(id) = Ok(<<>>)

\* C32: in a run, a file record whose path reconstruction raises or gives
\* the empty path is not copied and gets no row in copied_files, and when
\* the run ends a record whose reconstruction raised is in the run's
\* counts (skipped of a source-walk run, errored of a resume run).
C32_FailedPathSkipped ==
    mode \in {"standard", "resume"} =>
        \A id \in FileIds(files) :
            PathFails(id) =>
                /\ Event(id, "copied") \notin h_events
                /\ Event(id, "ledger") \notin h_events
                /\ (RunFinished /\ Event(id, "raised") \in h_events) =>
                       IF mode = "standard" THEN counters.skipped >= 1
                       ELSE results.errored >= 1

(***************************************************************************)
(* Properties of the mtime_refreshed flag                                  *)
(***************************************************************************)
\* The records whose destination file got its mtime from the record's
\* timestamps in the current run: by os.utime after a copy under
\* --preserve-mtime, or on a file that was there under
\* --refresh-mtime-existing.
MtimeSetIds ==
    {id \in FileIds(files) :
        /\ \/ Event(id, "utime") \in h_events
           \/ Event(id, "copied") \in h_events /\ args.preserve_mtime
                 /\ TsTruthy(BestTs(RowOf(files, id)))
        /\ \E p \in DOMAIN dest :
              /\ dest[p].mtime = DbMtime(BestTs(RowOf(files, id)))
              /\ p \in DOMAIN h_destStart => h_destStart[p].mtime # dest[p].mtime}

\* C33: when a run ends, a record whose destination file got its mtime
\* from the record's timestamps in the run and that has a row in
\* copied_files has mtime_refreshed = 1 in that row.
C33_FlagFollowsMtime ==
    RunFinished =>
        \A id \in MtimeSetIds :
            \A r \in copied_files : r.file_id = Str(id) => r.mtime_refreshed = 1

(***************************************************************************)
(* Runs on a record with every combination of the four timestamps          *)
(***************************************************************************)
\* The values of a timestamp column: NULL, 0, and a time in milliseconds.
StampValues == {NoTs, 0, 5000}

\* A folder with one file record that has the given timestamps.
IdxStamped(i, v, c, b) ==
    << DirRow(<<"1">>, <<"d">>, None),
       [FileRow(<<"2">>, <<"p">>, <<"1">>, C1id) EXCEPT
           !.imageDate = i, !.videoDate = v, !.cTime = c, !.birthTime = b] >>

InitStamps ==
    /\ \E i, v, c, b \in StampValues : files = IdxStamped(i, v, c, b)
    /\ copied_files = {}
    /\ skipped_files = {}
    /\ src \in SrcStores(files)
    /\ dest \in DestStarts(files)
    /\ destDirs = DirsOf(dest)
    /\ log = {}
    /\ args \in {a \in ArgSets(files) :
                    a.preserve_mtime /\ ~a.dry_run /\ ~a.no_regen_log}
    /\ NoRun
    /\ NoHistory
    /\ NoHarness

SpecStamps == InitStamps /\ [][Next]_vars

\* C34: under --preserve-mtime, when a run ends the file of a record the
\* run copied has the mtime of the first of imageDate, videoDate, cTime,
\* birthTime that is not NULL, in seconds, 0 included; when all four are
\* NULL its mtime is not from the database.
C34_MtimeFromFirstNonNull ==
    (RunFinished /\ args.preserve_mtime) =>
        \A id \in FileIds(files) :
            LET p == EnginePath(id).path
                first == BestTs(RowOf(files, id))
            IN (Event(id, "copied") \in h_events /\ p \in DOMAIN dest) =>
                  IF first = NoTs THEN dest[p].mtime.from # "db"
                  ELSE dest[p].mtime = DbMtime(first)

(***************************************************************************)
(* Runs on an index with a record marked a directory that has a contentID  *)
(***************************************************************************)
E9id == <<"e", "9">>

\* Folder d; record 2 has the directory mimeType and a contentID; record 3
\* is a file.
IdxMarkedDir ==
    << DirRow(<<"1">>, <<"d">>, None),
       [FileRow(<<"2">>, <<"e">>, <<"1">>, E9id) EXCEPT !.mimeType = DirMime],
       FileRow(<<"3">>, <<"p">>, <<"1">>, C1id) >>

\* The directory records: no contentID, or the directory mimeType.
DirIds(rows) == {rows[i].id : i \in {j \in 1..Len(rows) : ~IsFileRow(rows[j])}}

\* The source stores of SrcStores, each also with a blob under the
\* contentID of every record that has one.
AllCids(rows) ==
    {rows[i].contentID : i \in {j \in 1..Len(rows) : rows[j].contentID # None}}
DirStores(rows) == SrcStores(rows) \cup {s \cup AllCids(rows) : s \in SrcStores(rows)}

\* The destinations of DestStarts, and one with a file at the path of the
\* marked record.
DirDests(rows) ==
    DestStarts(rows) \cup
    {OneFile(ReconstructPath(rows, id, FALSE)) :
        id \in {x \in DirIds(rows) : RowOf(rows, x).contentID # None}}

InitDirs ==
    /\ files = IdxMarkedDir
    /\ copied_files = {}
    /\ skipped_files = {}
    /\ src \in DirStores(files)
    /\ dest \in DirDests(files)
    /\ destDirs = DirsOf(dest)
    /\ log = {}
    /\ args \in {a \in ArgSets(files) :
                    ~a.preserve_mtime /\ ~a.refresh_mtime_existing}
    /\ NoRun
    /\ NoHistory
    /\ NoHarness

SpecDirs == InitDirs /\ [][Next]_vars

\* C35: a directory record (no contentID, or the directory mimeType) is
\* never copied to the destination and never has a row in copied_files,
\* whatever runs: source walk, resume, regeneration from the destination.
C35_DirectoriesExcluded ==
    \A id \in DirIds(files) :
        /\ Event(id, "copied") \notin h_events
        /\ Str(id) \notin CompletedIds

(***************************************************************************)
(* Properties of the regeneration from the destination                     *)
(***************************************************************************)
\* C36: regenerate_copied_files_from_dest ends on every index: the
\* reconstruct_path it calls for a record with a contentID, while it
\* builds path_to_file_id, returns.
C36_RebuildEnds ==
    <>((rp.routine = "regen" /\ Truthy(FileDIC(files)[rp.file_id].contentID))
          => rp.pc = "returned")

\* C37: when regenerate_copied_files_from_dest is done, every file of the
\* destination was counted once, as matched or as unmatched:
\* matched_files + unmatched_files = total_files = the number of files.
C37_EveryFileCounted ==
    (rg.routine = "regenerate_copied_files_from_dest" /\ rg.pc = "done") =>
        /\ rg.total_files = Cardinality(DOMAIN dest)
        /\ rg.matched_files + rg.unmatched_files = rg.total_files

(***************************************************************************)
(* Properties of the counters of a source-walk run                         *)
(***************************************************************************)
\* C38: when a source-walk run ends, every file of the source store was
\* counted once in processed_files_counter, and each of them as copied or
\* as skipped: processed = the number of source files = copied + skipped.
C38_ProcessedCountsEveryFile ==
    (RunFinished /\ mode = "standard") =>
        /\ counters.processed = Cardinality(src)
        /\ counters.processed = counters.copied + counters.skipped

(***************************************************************************)
(* The connections of _db_connections and the database files they write    *)
(***************************************************************************)
MaxConnCalls == 3

ConnThreads == {1, 2}
DbPaths == {"a.db", "b.db"}

\* get_thread_db_connection(db_path), lines 45-52: the dict after the
\* call; a connection is the path it was opened on.
get_thread_db_connection(cache, thread_id, db_path) ==
    IF thread_id \notin DOMAIN cache
    THEN (thread_id :> db_path) @@ cache
    ELSE cache

\* close_all_db_connections(), lines 54-61
close_all_db_connections(cache) == [t \in {} |-> "a.db"]

InitConns ==
    /\ files = IdxTree
    /\ dest = EmptyTree
    /\ Parked
    /\ led = <<>>
    /\ rp = <<>>
    /\ pathCalls = <<>>
    /\ retry = <<>>
    /\ pool = <<>>
    /\ loc = <<>>
    /\ farm = <<>>
    /\ rg = <<>>
    /\ schema = <<>>
    /\ conns = [cache |-> [t \in {} |-> "a.db"],
                dbs |-> [p \in DbPaths |-> [copied_files |-> {}, skipped_files |-> {}]],
                calls |-> <<>>]

ConnVars == <<dbVars, fsVars, runVars, histVars, led, rp, pathCalls, retry, pool,
              loc, farm, rg, schema>>

\* insert_copied_file(db_path, file_id, filename) in thread t (lines
\* 209-220): the row goes to the database of the connection the thread
\* gets.
ConnInsertCopied(t, db_path) ==
    /\ Len(conns.calls) < MaxConnCalls
    /\ LET cache == get_thread_db_connection(conns.cache, t, db_path)
           conn == cache[t]
           file_id == <<"1">>
       IN conns' = [conns EXCEPT
             !.cache = cache,
             !.dbs[conn].copied_files = insert_copied_file(@, file_id, C1id),
             !.calls = Append(@, [op |-> "insert_copied_file", thread |-> t,
                                  db_path |-> db_path, written |-> conn])]
    /\ UNCHANGED ConnVars

\* insert_skipped_file(db_path, filename, reason) in thread t (lines 222-233)
ConnInsertSkipped(t, db_path) ==
    /\ Len(conns.calls) < MaxConnCalls
    /\ LET cache == get_thread_db_connection(conns.cache, t, db_path)
           conn == cache[t]
       IN conns' = [conns EXCEPT
             !.cache = cache,
             !.dbs[conn].skipped_files = insert_skipped_file(@, C1id, "source_missing"),
             !.calls = Append(@, [op |-> "insert_skipped_file", thread |-> t,
                                  db_path |-> db_path, written |-> conn])]
    /\ UNCHANGED ConnVars

\* close_all_db_connections() between calls (the end of __main__, line 1365)
ConnCloseAll ==
    /\ conns.calls # <<>>
    /\ DOMAIN conns.cache # {}
    /\ conns' = [conns EXCEPT !.cache = close_all_db_connections(@)]
    /\ UNCHANGED ConnVars

NextConns ==
    \/ \E t \in ConnThreads, p \in DbPaths : ConnInsertCopied(t, p)
    \/ \E t \in ConnThreads, p \in DbPaths : ConnInsertSkipped(t, p)
    \/ ConnCloseAll

SpecConns == InitConns /\ [][NextConns]_vars

\* C39: every call of insert_copied_file and insert_skipped_file writes to
\* the database at the db_path it was given, whatever the thread called
\* before.
C39_WritesToGivenDb ==
    \A i \in 1..Len(conns.calls) : conns.calls[i].written = conns.calls[i].db_path

=============================================================================
